---- MODULE Spec2Model ----
(***************************************************************************)
(* The sender-accounting supervisor of tap-agent (SenderAccount): its      *)
(* three fee trackers, the deny / allow state machine, the RAV-request     *)
(* scheduler with its retry timer, and the supervision of the              *)
(* per-allocation child actors.                                            *)
(*                                                                         *)
(* SenderFeeTracker and SenderAllocation are not part of the source tree   *)
(* at hand; the tracker's operations follow section 4.1 of the             *)
(* specification, the child actor follows section 4.2.                     *)
(***************************************************************************)
EXTENDS Integers, FiniteSets, Sequences, TLC

\* ------------------------------------------------------------------ bounds

\* Largest sum of the fees the three trackers hold together, and largest fee
\* value a message carries.
MaxFee == 2
\* Largest receipt counter a tracker holds for one allocation.
MaxCount == 2

\* ------------------------------------------------------- program constants

ALLOCATION_ID_0 == 0
ALLOCATION_ID_1 == 1
Alloc == {ALLOCATION_ID_0, ALLOCATION_ID_1}

\* No allocation / no timer handle (Option::None).
NONE == -1

\* u128::MAX at the width of the model: the largest value a tracker total
\* or a threshold can hold. The runs that keep their fees within MaxFee
\* never reach it with the sum of two totals, and the tests disable a
\* threshold with it.
U128_MAX == 2 * MaxFee + 1

\* U256::MAX at the width of the model: twice the bits of u128.
U256_MAX == (U128_MAX + 1) * (U128_MAX + 1) - 1

\* An escrow balance no sum of fees reaches.
MaxBalance == MaxFee + 1

\* config.tap as the tests set it: rav_request_trigger_value,
\* rav_request_receipt_limit, max_unnaggregated_fees_per_sender and whether
\* rav_request_timestamp_buffer_ms is positive.
Tap(trigger_value, receipt_limit, max_fees, buffered) ==
    [rav_request_trigger_value |-> trigger_value,
     rav_request_receipt_limit |-> receipt_limit,
     max_unnaggregated_fees_per_sender |-> max_fees,
     buffered |-> buffered]

\* The thresholds of the tests, scaled down to the fees of the model.
TRIGGER_VALUE == 2
RECEIPT_LIMIT == 2
MAX_FEES == 2

\* ------------------------------------------------------------------- state

VARIABLES
    config,                   \* State::config (fixed at construction)
    env,                      \* what the actor's environment sends in this run
    sender_fee_tracker,       \* State::sender_fee_tracker
    rav_tracker,              \* State::rav_tracker
    invalid_receipts_tracker, \* State::invalid_receipts_tracker
    allocation_ids,           \* State::allocation_ids
    scheduled_rav_request,    \* State::scheduled_rav_request: NONE or the allocation of the pending Retry
    retry_timers,             \* the send_after tasks that are still waiting to send their Retry
    denied,                   \* State::denied
    sender_balance,           \* State::sender_balance
    denylist,                 \* the sender's row in scalar_tap_denylist
    children,                 \* the actor registry: the SenderAllocation of each allocation
    child_triggers,           \* TriggerRAVRequest messages waiting in each child's mailbox
    rav_responses,            \* RavRequestResponse messages on their way to the supervisor
    self_casts,               \* UpdateValue(default) messages the supervisor cast to itself
    rav_requests,             \* per allocation: requests started minus requests finished
    scalar_tap_ravs,          \* the sender's rows in scalar_tap_ravs, by allocation
    redeemed,                 \* the allocations whose RAV the escrow subgraph has seen redeemed
    last,                     \* the message handled last, and what its handler did
    allocations_rx,           \* signers.rs: the watch channel of the indexer's allocations
    dispute_manager_rx,       \* signers.rs: the watch channel of the dispute manager address
    attestation_signers_map,  \* signers.rs: the signers kept behind the mutex
    signers_rx,               \* signers.rs: the watch channel the signers are published on
    sent                      \* signers.rs: what modify_sigers did for the map sent last

vars == <<config, env, sender_fee_tracker, rav_tracker, invalid_receipts_tracker,
          allocation_ids, scheduled_rav_request, retry_timers, denied,
          sender_balance, denylist, children, child_triggers, rav_responses, self_casts,
          rav_requests, scalar_tap_ravs, redeemed, last,
          allocations_rx, dispute_manager_rx, attestation_signers_map,
          signers_rx, sent>>

\* The state of attestation_signers, which the sender account never touches.
signer_vars == <<allocations_rx, dispute_manager_rx, attestation_signers_map,
                 signers_rx, sent>>

\* ------------------------------------------------------ SenderFeeTracker

Monus(x, y) == IF x >= y THEN x - y ELSE 0

RECURSIVE SumOver(_, _)
SumOver(f, S) ==
    IF S = {} THEN 0
    ELSE LET a == CHOOSE x \in S : TRUE IN f[a] + SumOver(f, S \ {a})

\* SenderFeeTracker::new(buffer) / SenderFeeTracker::default()
NewTracker(buffered) ==
    [fee |-> [a \in Alloc |-> 0], count |-> [a \in Alloc |-> 0],
     buf_fee |-> [a \in Alloc |-> 0], buf_count |-> [a \in Alloc |-> 0],
     blocked |-> {}, requesting |-> {}, backoff |-> {}, buffered |-> buffered]

add(t, id, value) ==
    IF t.buffered
    THEN [t EXCEPT !.fee[id] = @ + value, !.count[id] = @ + 1,
                   !.buf_fee[id] = @ + value, !.buf_count[id] = @ + 1]
    ELSE [t EXCEPT !.fee[id] = @ + value, !.count[id] = @ + 1]

update(t, id, fee, counter) ==
    [t EXCEPT !.fee[id] = fee, !.count[id] = counter]

get_total_fee(t) == SumOver(t.fee, Alloc)

value_outside_buffer(t, id) == Monus(t.fee[id], t.buf_fee[id])

get_total_fee_outside_buffer(t) ==
    SumOver([a \in Alloc |-> value_outside_buffer(t, a)], Alloc \ t.requesting)

get_total_counter_outside_buffer_for_allocation(t, id) ==
    Monus(t.count[id], t.buf_count[id])

check_allocation_has_rav_request_running(t, id) == id \in t.requesting

\* The eligible allocation of greatest value outside the buffer; ties go to
\* the lower address. NONE when nothing is eligible.
get_heaviest_allocation_id(t) ==
    LET eligible == { a \in Alloc : /\ a \notin t.blocked
                                    /\ a \notin t.requesting
                                    /\ a \notin t.backoff
                                    /\ value_outside_buffer(t, a) > 0 }
    IN IF eligible = {} THEN NONE
       ELSE CHOOSE a \in eligible :
              \A b \in eligible :
                  \/ value_outside_buffer(t, a) > value_outside_buffer(t, b)
                  \/ /\ value_outside_buffer(t, a) = value_outside_buffer(t, b)
                     /\ a <= b

get_list_of_allocation_ids(t) == { a \in Alloc : t.fee[a] > 0 \/ t.count[a] > 0 }

start_rav_request(t, id) == [t EXCEPT !.requesting = @ \cup {id}]
finish_rav_request(t, id) == [t EXCEPT !.requesting = @ \ {id}]
ok_rav_request(t, id) == [t EXCEPT !.backoff = @ \ {id}]
failed_rav_backoff(t, id) == [t EXCEPT !.backoff = @ \cup {id}]
block_allocation_id(t, id) == [t EXCEPT !.blocked = @ \cup {id}]
unblock_allocation_id(t, id) == [t EXCEPT !.blocked = @ \ {id}]

\* The timestamp buffer drains: every receipt seen so far is now older than
\* the buffer window.
expire_buffer(t) ==
    [t EXCEPT !.buf_fee = [a \in Alloc |-> 0], !.buf_count = [a \in Alloc |-> 0]]


\* ------------------------------------------------------------------ State

\* The supervisor's state together with what its handlers reach through it:
\* the deny-list table, the actor registry and the mailboxes they cast to.
CurrentState ==
    [sender_fee_tracker |-> sender_fee_tracker,
     rav_tracker |-> rav_tracker,
     invalid_receipts_tracker |-> invalid_receipts_tracker,
     allocation_ids |-> allocation_ids,
     scheduled_rav_request |-> scheduled_rav_request,
     retry_timers |-> retry_timers,
     denied |-> denied,
     sender_balance |-> sender_balance,
     denylist |-> denylist,
     children |-> children,
     child_triggers |-> child_triggers,
     self_casts |-> self_casts,
     rav_requests |-> rav_requests,
     cast_in |-> {}]

\* ActorRef::where_is: a child stays registered until it has stopped.
where_is(s, allocation_id) == s.children[allocation_id] # "none"

\* Spawning under a name that is still registered fails, and so may the
\* child's own start-up (spawn_ok = FALSE).
create_sender_allocation(s, allocation_id, spawn_ok) ==
    IF ~where_is(s, allocation_id) /\ spawn_ok
    THEN [s EXCEPT !.children[allocation_id] = "alive"]
    ELSE s

\* The deny condition with a cap that trips only above the maximum.
deny_condition_above_max(s) ==
    \/ get_total_fee(s.sender_fee_tracker) + get_total_fee(s.invalid_receipts_tracker)
          > config.max_unnaggregated_fees_per_sender
    \/ get_total_fee(s.rav_tracker) + get_total_fee(s.sender_fee_tracker)
          >= s.sender_balance

\* The deny condition with an escrow term that trips only above the balance.
deny_condition_above_balance(s) ==
    \/ get_total_fee(s.sender_fee_tracker) + get_total_fee(s.invalid_receipts_tracker)
          >= config.max_unnaggregated_fees_per_sender
    \/ get_total_fee(s.rav_tracker) + get_total_fee(s.sender_fee_tracker)
          > s.sender_balance

\* `+` on two u128 in a build without overflow checks: the sum wraps.
u128_add(x, y) == (x + y) % (U128_MAX + 1)

\* `+` on two u128 in a build with overflow checks: 'attempt to add with
\* overflow' when the sum does not fit.
u128_add_panics(x, y) == x + y > U128_MAX

\* The sums are taken in u128, the first one before it is widened to U256.
deny_condition_reached(s) ==
    LET pending_ravs == get_total_fee(s.rav_tracker)
        unaggregated_fees == get_total_fee(s.sender_fee_tracker)
        pending_fees_over_balance ==
            u128_add(pending_ravs, unaggregated_fees) >= s.sender_balance
        max_unaggregated_fees == config.max_unnaggregated_fees_per_sender
        invalid_receipt_fees == get_total_fee(s.invalid_receipts_tracker)
        total_fee_over_max_value ==
            u128_add(unaggregated_fees, invalid_receipt_fees)
                >= max_unaggregated_fees
    IN total_fee_over_max_value \/ pending_fees_over_balance

\* Whether evaluating the deny condition panics in a build with overflow
\* checks.
deny_condition_panics(s) ==
    \/ u128_add_panics(get_total_fee(s.rav_tracker),
                       get_total_fee(s.sender_fee_tracker))
    \/ u128_add_panics(get_total_fee(s.sender_fee_tracker),
                       get_total_fee(s.invalid_receipts_tracker))

\* rav_request_for_allocation marking the allocation before it looks for
\* the actor.
rav_request_marking_first(s, allocation_id) ==
    IF ~where_is(s, allocation_id)
    THEN [s EXCEPT !.sender_fee_tracker = start_rav_request(@, allocation_id)]
    ELSE [s EXCEPT !.child_triggers[allocation_id] = @ + 1,
                   !.sender_fee_tracker = start_rav_request(@, allocation_id),
                   !.rav_requests[allocation_id] = @ + 1,
                   !.cast_in = @ \cup {[denied |-> s.denied,
                                        over |-> deny_condition_reached(s)]}]

\* The cast of TriggerRAVRequest; cast_in notes, for the message handled
\* now, the deny state each cast was made in.
rav_request_for_allocation(s, allocation_id) ==
    IF ~where_is(s, allocation_id)
    THEN s
    ELSE [s EXCEPT !.child_triggers[allocation_id] = @ + 1,
                   !.sender_fee_tracker = start_rav_request(@, allocation_id),
                   !.rav_requests[allocation_id] = @ + 1,
                   !.cast_in = @ \cup {[denied |-> s.denied,
                                        over |-> deny_condition_reached(s)]}]

rav_request_for_heaviest_allocation(s) ==
    LET allocation_id == get_heaviest_allocation_id(s.sender_fee_tracker)
    IN IF allocation_id = NONE THEN s
       ELSE rav_request_for_allocation(s, allocation_id)

\* SenderAccount::deny_sender: INSERT ... ON CONFLICT DO NOTHING
deny_sender(s) == [s EXCEPT !.denylist = TRUE]

\* add_to_denylist setting the flag without the insert.
deny_in_memory_only(s) == [s EXCEPT !.denied = TRUE]

add_to_denylist(s) == [deny_sender(s) EXCEPT !.denied = TRUE]

remove_from_denylist(s) == [s EXCEPT !.denylist = FALSE, !.denied = FALSE]

\* A handler that goes on without the eager deny.
without_eager_deny(s) == s

\* `let should_deny = !state.denied && state.deny_condition_reached();`
eager_deny(s) ==
    IF ~s.denied /\ deny_condition_reached(s) THEN add_to_denylist(s) ELSE s


\* --------------------------------------------------------------- messages

NewReceipt(value) ==
    [kind |-> "NewReceipt", value |-> value, counter |-> 0, ok |-> TRUE, rav |-> NONE]
UpdateValue(value, counter) ==
    [kind |-> "UpdateValue", value |-> value, counter |-> counter, ok |-> TRUE, rav |-> NONE]
\* Ok((fees, rav)) with rav = NONE for Option::None, or Err(_)
RavRequestResponse(ok, value, counter, rav) ==
    [kind |-> "RavRequestResponse", value |-> value, counter |-> counter, ok |-> ok, rav |-> rav]
Retry ==
    [kind |-> "Retry", value |-> 0, counter |-> 0, ok |-> TRUE, rav |-> NONE]

\* ------------------------------------------------- SenderAccount::handle

\* The match with a NewReceipt arm that does not look at state.denied.
apply_receipt_fees_without_deny_sender(s, allocation_id, receipt_fees) ==
    CASE receipt_fees.kind = "NewReceipt" ->
            [s EXCEPT !.sender_fee_tracker =
                          add(@, allocation_id, receipt_fees.value)]
      [] receipt_fees.kind = "RavRequestResponse" ->
            LET s1 == [s EXCEPT !.sender_fee_tracker =
                                    finish_rav_request(@, allocation_id),
                                !.rav_requests[allocation_id] = @ - 1]
                rav_value == IF receipt_fees.rav = NONE THEN 0 ELSE receipt_fees.rav
            IN IF receipt_fees.ok
               THEN [s1 EXCEPT !.rav_tracker =
                                   update(ok_rav_request(@, allocation_id),
                                          allocation_id, rav_value, 0),
                               !.sender_fee_tracker =
                                   update(@, allocation_id, receipt_fees.value,
                                          receipt_fees.counter)]
               ELSE [s1 EXCEPT !.rav_tracker = failed_rav_backoff(@, allocation_id)]
      [] receipt_fees.kind = "UpdateValue" ->
            [s EXCEPT !.sender_fee_tracker =
                          update(@, allocation_id, receipt_fees.value,
                                 receipt_fees.counter)]
      [] OTHER -> s

\* The match with an Err arm that takes the failure for a response reporting
\* no fees left.
apply_receipt_fees_failure_as_empty(s, allocation_id, receipt_fees) ==
    CASE receipt_fees.kind = "NewReceipt" ->
            LET s1 == IF s.denied THEN deny_sender(s) ELSE s
            IN [s1 EXCEPT !.sender_fee_tracker =
                              add(@, allocation_id, receipt_fees.value)]
      [] receipt_fees.kind = "RavRequestResponse" ->
            LET s1 == [s EXCEPT !.sender_fee_tracker =
                                    finish_rav_request(@, allocation_id),
                                !.rav_requests[allocation_id] = @ - 1]
                rav_value == IF receipt_fees.rav = NONE THEN 0 ELSE receipt_fees.rav
            IN IF receipt_fees.ok
               THEN [s1 EXCEPT !.rav_tracker =
                                   update(ok_rav_request(@, allocation_id),
                                          allocation_id, rav_value, 0),
                               !.sender_fee_tracker =
                                   update(@, allocation_id, receipt_fees.value,
                                          receipt_fees.counter)]
               ELSE [s1 EXCEPT !.rav_tracker = failed_rav_backoff(@, allocation_id),
                               !.sender_fee_tracker =
                                   update(@, allocation_id, 0, 0)]
      [] receipt_fees.kind = "UpdateValue" ->
            [s EXCEPT !.sender_fee_tracker =
                          update(@, allocation_id, receipt_fees.value,
                                 receipt_fees.counter)]
      [] OTHER -> s

\* The match with an Ok arm that keeps the pending RAV it finds when the
\* response carries none.
apply_receipt_fees_keeping_rav(s, allocation_id, receipt_fees) ==
    CASE receipt_fees.kind = "NewReceipt" ->
            LET s1 == IF s.denied THEN deny_sender(s) ELSE s
            IN [s1 EXCEPT !.sender_fee_tracker =
                              add(@, allocation_id, receipt_fees.value)]
      [] receipt_fees.kind = "RavRequestResponse" ->
            LET s1 == [s EXCEPT !.sender_fee_tracker =
                                    finish_rav_request(@, allocation_id),
                                !.rav_requests[allocation_id] = @ - 1]
                rav_value == IF receipt_fees.rav = NONE
                             THEN s.rav_tracker.fee[allocation_id]
                             ELSE receipt_fees.rav
            IN IF receipt_fees.ok
               THEN [s1 EXCEPT !.rav_tracker =
                                   update(ok_rav_request(@, allocation_id),
                                          allocation_id, rav_value, 0),
                               !.sender_fee_tracker =
                                   update(@, allocation_id, receipt_fees.value,
                                          receipt_fees.counter)]
               ELSE [s1 EXCEPT !.rav_tracker = failed_rav_backoff(@, allocation_id)]
      [] receipt_fees.kind = "UpdateValue" ->
            [s EXCEPT !.sender_fee_tracker =
                          update(@, allocation_id, receipt_fees.value,
                                 receipt_fees.counter)]
      [] OTHER -> s

\* `match receipt_fees { ... }`
apply_receipt_fees(s, allocation_id, receipt_fees) ==
    CASE receipt_fees.kind = "NewReceipt" ->
            LET s1 == IF s.denied THEN deny_sender(s) ELSE s
            IN [s1 EXCEPT !.sender_fee_tracker =
                              add(@, allocation_id, receipt_fees.value)]
      [] receipt_fees.kind = "RavRequestResponse" ->
            LET s1 == [s EXCEPT !.sender_fee_tracker =
                                    finish_rav_request(@, allocation_id),
                                !.rav_requests[allocation_id] = @ - 1]
                rav_value == IF receipt_fees.rav = NONE THEN 0 ELSE receipt_fees.rav
            IN IF receipt_fees.ok
               THEN [s1 EXCEPT !.rav_tracker =
                                   update(ok_rav_request(@, allocation_id),
                                          allocation_id, rav_value, 0),
                               !.sender_fee_tracker =
                                   update(@, allocation_id, receipt_fees.value,
                                          receipt_fees.counter)]
               ELSE [s1 EXCEPT !.rav_tracker = failed_rav_backoff(@, allocation_id)]
      [] receipt_fees.kind = "UpdateValue" ->
            [s EXCEPT !.sender_fee_tracker =
                          update(@, allocation_id, receipt_fees.value,
                                 receipt_fees.counter)]
      [] OTHER -> s

\* The trigger decision without the look at the request in flight on the
\* receipt-limit path.
trigger_rav_request_while_running(s, allocation_id) ==
    LET total_counter_for_allocation ==
            get_total_counter_outside_buffer_for_allocation(
                s.sender_fee_tracker, allocation_id)
        total_fee_outside_buffer ==
            get_total_fee_outside_buffer(s.sender_fee_tracker)
    IN IF total_counter_for_allocation >= config.rav_request_receipt_limit
       THEN rav_request_for_allocation(s, allocation_id)
       ELSE IF total_fee_outside_buffer >= config.rav_request_trigger_value
            THEN rav_request_for_heaviest_allocation(s)
            ELSE s

\* The trigger decision on the tracker's full totals, the receipts inside the
\* timestamp buffer included.
trigger_rav_request_on_totals(s, allocation_id) ==
    LET counter_greater_receipt_limit ==
            /\ s.sender_fee_tracker.count[allocation_id]
                  >= config.rav_request_receipt_limit
            /\ ~check_allocation_has_rav_request_running(
                    s.sender_fee_tracker, allocation_id)
    IN IF counter_greater_receipt_limit
       THEN rav_request_for_allocation(s, allocation_id)
       ELSE IF get_total_fee(s.sender_fee_tracker) >= config.rav_request_trigger_value
            THEN rav_request_for_heaviest_allocation(s)
            ELSE s

\* The trigger decision without its thresholds: whatever the totals, the
\* heaviest allocation is asked.
trigger_rav_request_below_trigger(s, allocation_id) ==
    rav_request_for_heaviest_allocation(s)

\* The trigger decision without the receipt-limit path.
trigger_rav_request_by_value_only(s, allocation_id) ==
    IF get_total_fee_outside_buffer(s.sender_fee_tracker)
          >= config.rav_request_trigger_value
    THEN rav_request_for_heaviest_allocation(s)
    ELSE s

\* The trigger decision with the value trigger ahead of the receipt limit.
trigger_rav_request_value_first(s, allocation_id) ==
    LET counter_greater_receipt_limit ==
            /\ get_total_counter_outside_buffer_for_allocation(
                    s.sender_fee_tracker, allocation_id)
                  >= config.rav_request_receipt_limit
            /\ ~check_allocation_has_rav_request_running(
                    s.sender_fee_tracker, allocation_id)
    IN IF get_total_fee_outside_buffer(s.sender_fee_tracker)
             >= config.rav_request_trigger_value
       THEN rav_request_for_heaviest_allocation(s)
       ELSE IF counter_greater_receipt_limit
            THEN rav_request_for_allocation(s, allocation_id)
            ELSE s

\* The trigger decision: the receipt-limit trigger asks the message's own
\* allocation, the value trigger the heaviest one.
trigger_rav_request(s, allocation_id) ==
    LET total_counter_for_allocation ==
            get_total_counter_outside_buffer_for_allocation(
                s.sender_fee_tracker, allocation_id)
        counter_greater_receipt_limit ==
            /\ total_counter_for_allocation >= config.rav_request_receipt_limit
            /\ ~check_allocation_has_rav_request_running(
                    s.sender_fee_tracker, allocation_id)
        total_fee_outside_buffer ==
            get_total_fee_outside_buffer(s.sender_fee_tracker)
        total_fee_greater_trigger_value ==
            total_fee_outside_buffer >= config.rav_request_trigger_value
    IN IF counter_greater_receipt_limit
       THEN rav_request_for_allocation(s, allocation_id)
       ELSE IF total_fee_greater_trigger_value
            THEN rav_request_for_heaviest_allocation(s)
            ELSE s

\* `myself.send_after(state.retry_interval, ...)`: a new task that waits and
\* then sends the Retry; the state keeps the handle of the newest one.
send_after(s, allocation_id) ==
    [s EXCEPT !.scheduled_rav_request = allocation_id, !.retry_timers = @ + 1]

\* The last step of the handler without its (true, false) arm: it re-arms the
\* retry and never allows.
retry_without_allow(s, allocation_id) ==
    IF s.denied /\ deny_condition_reached(s)
    THEN send_after(s, allocation_id)
    ELSE s

\* The last step of the handler without its (true, true) arm: it allows and
\* never re-arms the retry.
allow_without_retry(s, allocation_id) ==
    IF s.denied /\ ~deny_condition_reached(s)
    THEN remove_from_denylist(s)
    ELSE s

\* The last step of the handler arming the retry whenever the sender was
\* denied when the handler began, allowed again or not.
allow_and_retry(s, allocation_id) ==
    IF s.denied
    THEN send_after(IF deny_condition_reached(s) THEN s
                    ELSE remove_from_denylist(s), allocation_id)
    ELSE s

\* `match (state.denied, state.deny_condition_reached()) { ... }`
allow_or_retry(s, allocation_id) ==
    IF s.denied /\ ~deny_condition_reached(s)
    THEN remove_from_denylist(s)
    ELSE IF s.denied /\ deny_condition_reached(s)
         THEN send_after(s, allocation_id)
         ELSE s

\* `scheduled_rav_request.take()` and `abort()`: the task the handle refers
\* to is cancelled if it is still waiting.
abort_scheduled(s) ==
    IF s.scheduled_rav_request = NONE THEN s
    ELSE [s EXCEPT !.scheduled_rav_request = NONE,
                   !.retry_timers = Monus(@, 1)]

\* The handler without the abort at its top: it lets the timer it finds run.
receipt_fees_without_abort(s, allocation_id, receipt_fees) ==
    LET mutated == apply_receipt_fees(s, allocation_id, receipt_fees)
        requested == trigger_rav_request(eager_deny(mutated), allocation_id)
    IN allow_or_retry(requested, allocation_id)

\* The handler with the RAV request ahead of the eager deny.
receipt_fees_trigger_before_deny(s, allocation_id, receipt_fees) ==
    LET aborted == abort_scheduled(s)
        mutated == apply_receipt_fees(aborted, allocation_id, receipt_fees)
        requested == eager_deny(trigger_rav_request(mutated, allocation_id))
    IN allow_or_retry(requested, allocation_id)

handle_UpdateReceiptFees(s, allocation_id, receipt_fees) ==
    LET aborted == abort_scheduled(s)
        mutated == apply_receipt_fees(aborted, allocation_id, receipt_fees)
        requested == trigger_rav_request(eager_deny(mutated), allocation_id)
    IN allow_or_retry(requested, allocation_id)

\* UpdateRav ending with the two-way match of UpdateBalanceAndLastRavs in
\* place of the eager deny.
update_rav_allowing(s, allocation_id, value_aggregate) ==
    LET s1 == [s EXCEPT !.rav_tracker =
                            update(@, allocation_id, value_aggregate, 0)]
    IN IF s1.denied /\ ~deny_condition_reached(s1) THEN remove_from_denylist(s1)
       ELSE eager_deny(s1)

handle_UpdateRav(s, allocation_id, value_aggregate) ==
    eager_deny([s EXCEPT !.rav_tracker = update(@, allocation_id, value_aggregate, 0)])

\* UpdateInvalidReceiptFees ending with the two-way match of
\* UpdateBalanceAndLastRavs in place of the eager deny.
update_invalid_allowing(s, allocation_id, value) ==
    LET s1 == [s EXCEPT !.invalid_receipts_tracker =
                            update(@, allocation_id, value, 0)]
    IN IF s1.denied /\ ~deny_condition_reached(s1) THEN remove_from_denylist(s1)
       ELSE eager_deny(s1)

handle_UpdateInvalidReceiptFees(s, allocation_id, value) ==
    eager_deny([s EXCEPT !.invalid_receipts_tracker = update(@, allocation_id, value, 0)])

RECURSIVE create_all(_, _, _)
create_all(s, ids, spawned) ==
    IF ids = {} THEN s
    ELSE LET id == CHOOSE x \in ids : TRUE
         IN create_all(create_sender_allocation(s, id, id \in spawned),
                       ids \ {id}, spawned)

RECURSIVE stop_all(_, _)
stop_all(s, ids) ==
    IF ids = {} THEN s
    ELSE LET id == CHOOSE x \in ids : TRUE
             s1 == IF where_is(s, id)
                   THEN [s EXCEPT !.sender_fee_tracker = block_allocation_id(@, id),
                                  !.children[id] = "stopping"]
                   ELSE s
         IN stop_all(s1, ids \ {id})

\* UpdateAllocationIds spawning a child for every id of the new set, in the
\* set before or not.
update_allocation_ids_spawning_all(s, new_allocation_ids, spawned) ==
    LET created == create_all(s, new_allocation_ids, spawned)
        stopped == stop_all(created, s.allocation_ids \ new_allocation_ids)
    IN [stopped EXCEPT !.allocation_ids = new_allocation_ids]

\* UpdateAllocationIds forgetting the pending RAV of the allocations it
\* removes.
update_allocation_ids_dropping_ravs(s, new_allocation_ids, spawned) ==
    LET created == create_all(s, new_allocation_ids \ s.allocation_ids, spawned)
        stopped == stop_all(created, s.allocation_ids \ new_allocation_ids)
    IN [stopped EXCEPT !.allocation_ids = new_allocation_ids,
                       !.rav_tracker.fee =
                           [a \in Alloc |->
                               IF a \in s.allocation_ids \ new_allocation_ids
                               THEN 0 ELSE s.rav_tracker.fee[a]]]

\* `spawned`: the allocations whose child starts up without error.
handle_UpdateAllocationIds(s, new_allocation_ids, spawned) ==
    LET created == create_all(s, new_allocation_ids \ s.allocation_ids, spawned)
        stopped == stop_all(created, s.allocation_ids \ new_allocation_ids)
    IN [stopped EXCEPT !.allocation_ids = new_allocation_ids]

\* NewAllocationId putting a fresh child in the place of the one it finds.
new_allocation_id_respawning(s, allocation_id, spawn_ok) ==
    [s EXCEPT !.children[allocation_id] = IF spawn_ok THEN "alive" ELSE @,
              !.child_triggers[allocation_id] = IF spawn_ok THEN 0 ELSE @,
              !.allocation_ids = @ \cup {allocation_id}]

handle_NewAllocationId(s, allocation_id, spawn_ok) ==
    [create_sender_allocation(s, allocation_id, spawn_ok)
        EXCEPT !.allocation_ids = @ \cup {allocation_id}]

RECURSIVE update_all(_, _, _)
update_all(t, ids, value) ==
    IF ids = {} THEN t
    ELSE LET id == CHOOSE x \in ids : TRUE
         IN update_all(update(t, id, value[id], 0), ids \ {id}, value)

\* UpdateBalanceAndLastRavs with the eager deny of the other handlers in
\* place of its two-way match.
update_balance_deny_only(s, new_balance, non_final_last_ravs) ==
    LET s1 == [s EXCEPT !.sender_balance = new_balance]
        active_allocation_ids == s1.allocation_ids \cup DOMAIN non_final_last_ravs
        removed == update_all(s1.rav_tracker,
                              get_list_of_allocation_ids(s1.rav_tracker)
                                  \ active_allocation_ids,
                              [a \in Alloc |-> 0])
    IN eager_deny([s1 EXCEPT !.rav_tracker =
                      update_all(removed, DOMAIN non_final_last_ravs,
                                 non_final_last_ravs)])

\* UpdateBalanceAndLastRavs resetting every tracked allocation the map does
\* not name, the sender's current allocations included.
update_balance_resetting_unlisted(s, new_balance, non_final_last_ravs) ==
    LET s1 == [s EXCEPT !.sender_balance = new_balance]
        non_final_last_ravs_set == DOMAIN non_final_last_ravs
        tracked_allocation_ids == get_list_of_allocation_ids(s1.rav_tracker)
        removed == update_all(s1.rav_tracker,
                              tracked_allocation_ids \ non_final_last_ravs_set,
                              [a \in Alloc |-> 0])
        s2 == [s1 EXCEPT !.rav_tracker =
                   update_all(removed, non_final_last_ravs_set, non_final_last_ravs)]
    IN IF s2.denied /\ ~deny_condition_reached(s2) THEN remove_from_denylist(s2)
       ELSE IF ~s2.denied /\ deny_condition_reached(s2) THEN add_to_denylist(s2)
       ELSE s2

\* non_final_last_ravs: a function from the allocations it has a RAV for.
handle_UpdateBalanceAndLastRavs(s, new_balance, non_final_last_ravs) ==
    LET s1 == [s EXCEPT !.sender_balance = new_balance]
        non_final_last_ravs_set == DOMAIN non_final_last_ravs
        active_allocation_ids == s1.allocation_ids \cup non_final_last_ravs_set
        tracked_allocation_ids == get_list_of_allocation_ids(s1.rav_tracker)
        removed == update_all(s1.rav_tracker,
                              tracked_allocation_ids \ active_allocation_ids,
                              [a \in Alloc |-> 0])
        s2 == [s1 EXCEPT !.rav_tracker =
                   update_all(removed, non_final_last_ravs_set, non_final_last_ravs)]
    IN IF s2.denied /\ ~deny_condition_reached(s2) THEN remove_from_denylist(s2)
       ELSE IF ~s2.denied /\ deny_condition_reached(s2) THEN add_to_denylist(s2)
       ELSE s2

\* ------------------------------------ SenderAccount::handle_supervisor_evt

\* The termination handler dropping the RAV of the closed allocation too.
terminated_dropping_rav(s, allocation_id) ==
    [s EXCEPT !.sender_fee_tracker = unblock_allocation_id(@, allocation_id),
              !.rav_tracker = update(@, allocation_id, 0, 0),
              !.self_casts = @ \cup {allocation_id}]

handle_ActorTerminated(s, allocation_id) ==
    [s EXCEPT !.sender_fee_tracker = unblock_allocation_id(@, allocation_id),
              !.self_casts = @ \cup {allocation_id}]

handle_ActorPanicked(s, allocation_id, spawn_ok) ==
    create_sender_allocation(s, allocation_id, spawn_ok)

\* A cell name whose last ':' segment is not a checksummed address; NONE is
\* a cell without a name.
BAD_NAME == -2
CellNames == Alloc \cup {NONE, BAD_NAME}

\* `cell.get_name()`, `split(':').last()`, `Address::parse_checksummed`: the
\* children are named after their allocation, every other name gives none.
allocation_id_of(cell_name) ==
    IF cell_name \in Alloc THEN cell_name ELSE NONE

\* `match message { ... }`: each arm returns Ok(()) early when the name of
\* the cell gives no allocation id.
handle_supervisor_evt(s, message, cell_name, spawn_ok) ==
    LET allocation_id == allocation_id_of(cell_name)
    IN IF allocation_id = NONE THEN s
       ELSE IF message = "ActorTerminated"
            THEN handle_ActorTerminated(s, allocation_id)
            ELSE IF message = "ActorPanicked"
                 THEN handle_ActorPanicked(s, allocation_id, spawn_ok)
                 ELSE s

\* ------------------------------- SenderAccount::pre_start: escrow monitor

\* A row of scalar_tap_ravs.
RavRow(value_aggregate, is_last, is_final) ==
    [value_aggregate |-> value_aggregate, last |-> is_last, final |-> is_final]

\* The text of an allocation id: `format!("{:x?}", allocation)`, and the
\* allocationID of a transaction the escrow subgraph returns.
hex_debug(allocation_id) == <<"0x", allocation_id>>

\* The escrow subgraph's answer to the UnfinalizedTransactions query: the
\* redeem transactions it knows of for the allocations asked about, or an
\* error.
unfinalized_transactions(ok, unfinalized_ravs_allocation_ids, redeemed_ids) ==
    [ok |-> ok,
     transactions |->
        IF ok
        THEN { hex_debug(a) : a \in unfinalized_ravs_allocation_ids \cap redeemed_ids }
        ELSE {}]

\* `SELECT ... FROM scalar_tap_ravs WHERE sender_address = $1 AND last AND NOT final`
last_non_final_ravs(rows) ==
    { a \in DOMAIN rows : rows[a].last /\ ~rows[a].final }

\* `Ok(Ok(response)) => ..., _ => vec![]`
redeemed_ravs_allocation_ids(response) ==
    IF response.ok THEN response.transactions ELSE {}

\* The monitor without its filter: every last, non-final RAV is passed on.
non_redeemed_ravs_unfiltered(rows, response) ==
    [a \in last_non_final_ravs(rows) |-> rows[a].value_aggregate]

\* The monitor passing no RAV on when the subgraph cannot be asked.
non_redeemed_ravs_fail_open(rows, response) ==
    LET kept == { a \in last_non_final_ravs(rows) :
                    /\ response.ok
                    /\ hex_debug(a) \notin response.transactions }
    IN [a \in kept |-> rows[a].value_aggregate]

\* The RAVs marked as last that were not redeemed yet.
non_redeemed_ravs(rows, response) ==
    LET kept == { a \in last_non_final_ravs(rows) :
                    hex_debug(a) \notin redeemed_ravs_allocation_ids(response) }
    IN [a \in kept |-> rows[a].value_aggregate]


\* ------------------------------------------------------------ environment

\* One run's environment: the allocations its messages and events are about,
\* the messages and events that occur in it, the values its receipts carry,
\* the balances the escrow stream reports and the allocation sets the actor
\* may be started with.
Environment(allocs, events, receipts, balances, initial_ids) ==
    [allocs |-> allocs, events |-> events, receipts |-> receipts,
     balances |-> balances, initial_ids |-> initial_ids]

ReceiptEvents == {"NewReceipt", "UpdateValue", "Retry"}
RavEvents == {"RavRequestResponse", "BufferExpires"}
DenyEvents == {"UpdateRav", "UpdateInvalidReceiptFees", "UpdateBalanceAndLastRavs"}
MemberEvents == {"UpdateAllocationIds", "NewAllocationId", "ActorTerminated", "ActorPanicked"}

\* The balances the escrow stream reports: nothing, what the fees can just
\* reach, and more than they reach.
Balances == {0, MaxFee, MaxBalance}

\* Deny accounting: two allocations without children, no buffer, both deny
\* thresholds live.
DenyRun ==
    <<Tap(TRIGGER_VALUE, RECEIPT_LIMIT, MAX_FEES, FALSE),
      Environment(Alloc, {"UpdateValue", "Retry"} \cup DenyEvents, {},
                  Balances, {{}})>>

\* RAV scheduling: two allocations with their children, receipts behind the
\* timestamp buffer, the deny thresholds out of reach.
TriggerRun ==
    <<Tap(TRIGGER_VALUE, RECEIPT_LIMIT, U128_MAX, TRUE),
      Environment(Alloc, {"NewReceipt", "Retry"} \cup RavEvents,
                  1 .. MaxFee, {MaxBalance}, {Alloc})>>

\* The receipt limit: one allocation with its child and receipts of little
\* or no value, which reach the limit before the trigger value.
CountRun ==
    <<Tap(TRIGGER_VALUE, RECEIPT_LIMIT, U128_MAX, TRUE),
      Environment({ALLOCATION_ID_0}, {"NewReceipt", "Retry"} \cup RavEvents,
                  0 .. 1, {MaxBalance}, {{ALLOCATION_ID_0}})>>

\* Both triggers at once: two allocations with their children, receipts of
\* no value that count toward the receipt limit of one allocation while the
\* value is on the other.
PrecedenceRun ==
    <<Tap(TRIGGER_VALUE, RECEIPT_LIMIT, U128_MAX, TRUE),
      Environment(Alloc, {"NewReceipt", "Retry", "BufferExpires"},
                  {0, MaxFee}, {MaxBalance}, {Alloc})>>

\* Escrow accounting and RAV scheduling together: one allocation with its
\* child, no buffer, the cap on unaggregated fees disabled.
DenyTriggerRun ==
    <<Tap(TRIGGER_VALUE, RECEIPT_LIMIT, U128_MAX, FALSE),
      Environment({ALLOCATION_ID_0},
                  ReceiptEvents \cup {"UpdateRav", "UpdateBalanceAndLastRavs"},
                  1 .. MaxFee, Balances, {{ALLOCATION_ID_0}})>>

\* RAV scheduling while the allocation comes and goes.
MemberTriggerRun ==
    <<Tap(TRIGGER_VALUE, RECEIPT_LIMIT, U128_MAX, FALSE),
      Environment({ALLOCATION_ID_0},
                  {"NewReceipt", "Retry"} \cup RavEvents \cup MemberEvents,
                  1 .. MaxFee, {MaxBalance}, SUBSET {ALLOCATION_ID_0})>>

\* Deny accounting while the allocation comes and goes, no RAV request.
MemberDenyRun ==
    <<Tap(U128_MAX, MaxCount + 1, MAX_FEES, FALSE),
      Environment({ALLOCATION_ID_0},
                  {"UpdateValue", "UpdateRav", "UpdateAllocationIds",
                   "NewAllocationId", "ActorTerminated"},
                  {}, {MaxFee}, {{}})>>

\* The escrow monitor: the store holds RAVs of two allocations, one of which
\* may be open and report its RAV; no receipts, no cap on unaggregated fees.
MonitorRun ==
    <<Tap(U128_MAX, MaxCount + 1, U128_MAX, FALSE),
      Environment({ALLOCATION_ID_0},
                  {"escrow_account_monitor", "Redeem", "UpdateRav"},
                  {}, {MaxFee, MaxBalance}, SUBSET {ALLOCATION_ID_0})>>

MonitorScenarios == {MonitorRun}

Scenarios ==
    {DenyRun, TriggerRun, CountRun, DenyTriggerRun, MemberTriggerRun,
     MemberDenyRun}

FeeValues == 0 .. MaxFee
Counters == 0 .. MaxCount
RavMaps == UNION { [D -> FeeValues] : D \in SUBSET env.allocs }

\* What scalar_tap_ravs may hold for the sender: at most one row for each
\* allocation, a RAV that is not the last, the last one, or the last one
\* marked final; their values within the bounds of the model.
RavRows ==
    { r \in { RavRow(v, l, f) : v \in 1 .. MaxFee, l \in BOOLEAN, f \in BOOLEAN } :
        r.final => r.last }
StoreRows ==
    { rows \in UNION { [D -> RavRows] : D \in SUBSET Alloc } :
        SumOver([a \in Alloc |-> IF a \in DOMAIN rows
                                  THEN rows[a].value_aggregate ELSE 0], Alloc)
            <= MaxFee }

\* The totals and counters stay within the bounds of the model.
WithinBounds(s) ==
    /\ get_total_fee(s.sender_fee_tracker) + get_total_fee(s.rav_tracker)
         + get_total_fee(s.invalid_receipts_tracker) <= MaxFee
    /\ \A a \in Alloc : /\ s.sender_fee_tracker.count[a] <= MaxCount
                         /\ s.sender_fee_tracker.buf_count[a] <= MaxCount
                         /\ s.sender_fee_tracker.buf_fee[a] <= MaxFee

\* ---------------------------------------------------------------- actions

\* What the handler of the last message did: the allocations it cast a
\* TriggerRAVRequest to, whether the sender was denied when it began,
\* whether the message was one the supervisor cast to itself, whether it
\* repeated the message handled just before it and, for a
\* message of the escrow monitor, what the monitor was answered and passed on.
Handled(msg, kind, allocation_id, pre, post) ==
    [msg |-> msg, kind |-> kind, alloc |-> allocation_id,
     pre_denied |-> pre.denied,
     pre_timer |-> pre.scheduled_rav_request,
     pre_denylist |-> pre.denylist,
     cast_in |-> post.cast_in,
     triggered |-> { a \in Alloc : post.child_triggers[a] > pre.child_triggers[a] },
     self_cast |-> FALSE, repeated |-> FALSE, monitor |-> <<>>]

NoMessage ==
    [msg |-> "none", kind |-> "none", alloc |-> NONE, pre_denied |-> FALSE,
     pre_timer |-> NONE, pre_denylist |-> FALSE, cast_in |-> {},
     triggered |-> {}, self_cast |-> FALSE, repeated |-> FALSE,
     monitor |-> <<>>]

Commit(post) ==
    /\ sender_fee_tracker' = post.sender_fee_tracker
    /\ rav_tracker' = post.rav_tracker
    /\ invalid_receipts_tracker' = post.invalid_receipts_tracker
    /\ allocation_ids' = post.allocation_ids
    /\ scheduled_rav_request' = post.scheduled_rav_request
    /\ retry_timers' = post.retry_timers
    /\ denied' = post.denied
    /\ sender_balance' = post.sender_balance
    /\ denylist' = post.denylist
    /\ children' = post.children
    /\ child_triggers' = post.child_triggers
    /\ self_casts' = post.self_casts
    /\ rav_requests' = post.rav_requests
    /\ UNCHANGED <<config, env, scalar_tap_ravs, redeemed, signer_vars>>

\* The supervisor handles UpdateReceiptFees(allocation_id, receipt_fees).
ReceiveReceiptFees(allocation_id, receipt_fees) ==
    \E post \in {handle_UpdateReceiptFees(CurrentState, allocation_id,
                                          receipt_fees)} :
        /\ WithinBounds(post)
        /\ Commit(post)
        /\ last' = Handled("UpdateReceiptFees", receipt_fees.kind, allocation_id,
                           CurrentState, post)

UpdateReceiptFees_NewReceipt ==
    /\ "NewReceipt" \in env.events
    /\ \E a \in env.allocs, v \in env.receipts :
        /\ ReceiveReceiptFees(a, NewReceipt(v))
        /\ UNCHANGED rav_responses

\* The counters an allocation reports with its totals: none in a run that
\* follows no receipts.
ReportedCounters == IF env.receipts = {} THEN {0} ELSE Counters

\* The allocation reports its totals: a counter of receipts of at least one
\* unit each, or no counter at all.
UpdateReceiptFees_UpdateValue ==
    /\ "UpdateValue" \in env.events
    /\ \E a \in env.allocs, v \in FeeValues, c \in ReportedCounters :
        /\ c <= v
        /\ ReceiveReceiptFees(a, UpdateValue(v, c))
        /\ UNCHANGED rav_responses

\* A Retry that is in the mailbox whatever became of the timer that sent it.
UpdateReceiptFees_Retry ==
    /\ "Retry" \in env.events
    /\ \E a \in env.allocs :
        /\ ReceiveReceiptFees(a, Retry)
        /\ UNCHANGED rav_responses

\* The retry timer fires and its Retry is handled.
RetryTimer ==
    /\ scheduled_rav_request # NONE
    /\ retry_timers > 0
    /\ LET fired == [CurrentState EXCEPT !.scheduled_rav_request = NONE,
                                         !.retry_timers = @ - 1]
           post == handle_UpdateReceiptFees(fired, scheduled_rav_request, Retry)
       IN /\ WithinBounds(post)
          /\ Commit(post)
          /\ last' = Handled("UpdateReceiptFees", "Retry", scheduled_rav_request,
                             CurrentState, post)
    /\ UNCHANGED rav_responses

UpdateReceiptFees_RavRequestResponse ==
    \E a \in Alloc, ok \in BOOLEAN, v \in FeeValues, c \in Counters,
       rav \in FeeValues \cup {NONE} :
        /\ rav_responses[a] > 0
        /\ c <= v
        /\ ~ok => (v = 0 /\ rav = NONE)
        /\ ReceiveReceiptFees(a, RavRequestResponse(ok, v, c, rav))
        /\ rav_responses' = [rav_responses EXCEPT ![a] = @ - 1]

\* The UpdateValue(default) the supervisor cast to itself is handled.
UpdateReceiptFees_SelfCast ==
    \E a \in self_casts :
        LET pre == [CurrentState EXCEPT !.self_casts = @ \ {a}]
            post == handle_UpdateReceiptFees(pre, a, UpdateValue(0, 0))
        IN /\ Commit(post)
           /\ last' = [Handled("UpdateReceiptFees", "UpdateValue", a, pre, post)
                           EXCEPT !.self_cast = TRUE]
           /\ UNCHANGED rav_responses

UpdateRav ==
    /\ "UpdateRav" \in env.events
    /\ \E a \in env.allocs, v \in FeeValues :
        LET post == handle_UpdateRav(CurrentState, a, v)
        IN /\ WithinBounds(post)
           /\ Commit(post)
           /\ last' = Handled("UpdateRav", "none", a, CurrentState, post)
           /\ UNCHANGED rav_responses

UpdateInvalidReceiptFees ==
    /\ "UpdateInvalidReceiptFees" \in env.events
    /\ \E a \in env.allocs, v \in FeeValues :
        LET post == handle_UpdateInvalidReceiptFees(CurrentState, a, v)
        IN /\ WithinBounds(post)
           /\ Commit(post)
           /\ last' = Handled("UpdateInvalidReceiptFees", "none", a, CurrentState, post)
           /\ UNCHANGED rav_responses

UpdateAllocationIds ==
    /\ "UpdateAllocationIds" \in env.events
    /\ \E ids \in SUBSET env.allocs, spawned \in SUBSET env.allocs :
        LET post == handle_UpdateAllocationIds(CurrentState, ids, spawned)
        IN /\ Commit(post)
           /\ last' = [Handled("UpdateAllocationIds", "none", NONE, CurrentState, post)
                           EXCEPT !.repeated = /\ last.msg = "UpdateAllocationIds"
                                               /\ ids = allocation_ids]
           /\ UNCHANGED rav_responses

NewAllocationId ==
    /\ "NewAllocationId" \in env.events
    /\ \E a \in env.allocs, spawn_ok \in BOOLEAN :
        LET post == handle_NewAllocationId(CurrentState, a, spawn_ok)
        IN /\ Commit(post)
           /\ last' = Handled("NewAllocationId", "none", a, CurrentState, post)
           /\ UNCHANGED rav_responses

UpdateBalanceAndLastRavs ==
    /\ "UpdateBalanceAndLastRavs" \in env.events
    /\ \E b \in env.balances, m \in RavMaps :
        LET post == handle_UpdateBalanceAndLastRavs(CurrentState, b, m)
        IN /\ WithinBounds(post)
           /\ Commit(post)
           /\ last' = Handled("UpdateBalanceAndLastRavs", "none", NONE, CurrentState, post)
           /\ UNCHANGED rav_responses

\* A child stops (asked to, or stopped from outside): it leaves the registry
\* with whatever was in its mailbox, and the supervisor handles the event.
ActorTerminated ==
    /\ "ActorTerminated" \in env.events
    /\ \E a \in Alloc :
        /\ children[a] # "none"
        /\ LET gone == [CurrentState EXCEPT !.children[a] = "none",
                                            !.child_triggers[a] = 0]
               post == handle_supervisor_evt(gone, "ActorTerminated", a, TRUE)
           IN /\ Commit(post)
              /\ last' = Handled("ActorTerminated", "none", a, gone, post)
        /\ UNCHANGED rav_responses

\* A child panics while handling a message; the supervisor handles the event.
ActorPanicked ==
    /\ "ActorPanicked" \in env.events
    /\ \E a \in Alloc, spawn_ok \in BOOLEAN :
        /\ children[a] # "none"
        /\ LET gone == [CurrentState EXCEPT !.children[a] = "none",
                                            !.child_triggers[a] = 0]
               post == handle_supervisor_evt(gone, "ActorPanicked", a, spawn_ok)
           IN /\ Commit(post)
              /\ last' = Handled("ActorPanicked", "none", a, gone, post)
        /\ UNCHANGED rav_responses

\* A child takes a TriggerRAVRequest from its mailbox, calls the aggregator
\* and casts the outcome back to the supervisor.
TriggerRAVRequest ==
    \E a \in Alloc :
        /\ children[a] # "none"
        /\ child_triggers[a] > 0
        /\ child_triggers' = [child_triggers EXCEPT ![a] = @ - 1]
        /\ rav_responses' = [rav_responses EXCEPT ![a] = @ + 1]
        /\ last' = NoMessage
        /\ UNCHANGED <<config, env, sender_fee_tracker, rav_tracker,
                       invalid_receipts_tracker, allocation_ids,
                       scheduled_rav_request, retry_timers, denied, sender_balance, denylist,
                       children, self_casts, rav_requests, scalar_tap_ravs,
                       redeemed, signer_vars>>

\* Time passes beyond the timestamp buffer.
BufferExpires ==
    /\ sender_fee_tracker' = expire_buffer(sender_fee_tracker)
    /\ sender_fee_tracker' # sender_fee_tracker
    /\ last' = NoMessage
    /\ UNCHANGED <<config, env, rav_tracker, invalid_receipts_tracker,
                   allocation_ids, scheduled_rav_request, retry_timers, denied,
                   sender_balance,
                   denylist, children, child_triggers, rav_responses, self_casts,
                   rav_requests, scalar_tap_ravs, redeemed, signer_vars>>

\* The escrow accounts change (or are read for the first time): the monitor
\* reads the sender's balance, the RAVs of the store and the redeem
\* transactions of the subgraph, and the supervisor handles the
\* UpdateBalanceAndLastRavs it casts.
escrow_account_monitor ==
    /\ "escrow_account_monitor" \in env.events
    /\ \E balance \in env.balances, ok \in BOOLEAN :
        LET response ==
                unfinalized_transactions(
                    ok, last_non_final_ravs(scalar_tap_ravs), redeemed)
            ravs == non_redeemed_ravs(scalar_tap_ravs, response)
            post == handle_UpdateBalanceAndLastRavs(CurrentState, balance, ravs)
        IN /\ WithinBounds(post)
           /\ Commit(post)
           /\ last' = [Handled("UpdateBalanceAndLastRavs", "escrow_account_monitor",
                               NONE, CurrentState, post)
                           EXCEPT !.monitor = [response |-> response,
                                               ravs |-> ravs]]
           /\ UNCHANGED rav_responses

\* The allocations whose RAV in the store can be redeemed: it is their last.
Redeemable(rows) == { a \in DOMAIN rows : rows[a].last }

\* The last RAV of an allocation is redeemed on chain and the subgraph
\* indexes the transaction.
Redeem ==
    /\ "Redeem" \in env.events
    /\ \E a \in Redeemable(scalar_tap_ravs) \ redeemed :
        /\ redeemed' = redeemed \cup {a}
        /\ last' = NoMessage
        /\ UNCHANGED <<config, env, sender_fee_tracker, rav_tracker,
                       invalid_receipts_tracker, allocation_ids,
                       scheduled_rav_request, retry_timers, denied, sender_balance, denylist,
                       children, child_triggers, rav_responses, self_casts,
                       rav_requests, scalar_tap_ravs, signer_vars>>

\* --------------------------------------------------- SenderAccount::pre_start

\* The actor has started and has handled no message yet.
Started == [NoMessage EXCEPT !.msg = "pre_start"]

\* A start that takes every sender as allowed.
allowed_at_start(denylist_row) == FALSE

\* `SELECT EXISTS (SELECT 1 FROM scalar_tap_denylist WHERE sender_address = $1)`
denied_at_start(denylist_row) == denylist_row

\* The State pre_start returns, the children it spawns, empty mailboxes.
StartState ==
    /\ sender_fee_tracker = NewTracker(config.buffered)
    /\ rav_tracker = NewTracker(FALSE)
    /\ invalid_receipts_tracker = NewTracker(FALSE)
    /\ allocation_ids \in env.initial_ids
    /\ children = [a \in Alloc |-> IF a \in allocation_ids THEN "alive" ELSE "none"]
    /\ scheduled_rav_request = NONE
    /\ retry_timers = 0
    /\ denylist \in BOOLEAN
    /\ denied = denied_at_start(denylist)
    /\ sender_balance \in env.balances
    /\ child_triggers = [a \in Alloc |-> 0]
    /\ rav_responses = [a \in Alloc |-> 0]
    /\ self_casts = {}
    /\ rav_requests = [a \in Alloc |-> 0]
    /\ last = Started

\* The store's RAV rows are not followed here: UpdateBalanceAndLastRavs
\* carries any map of last RAVs.
\* attestation_signers has not been called.
SignersNotStarted ==
    /\ allocations_rx = [value |-> <<>>, changed |-> FALSE]
    /\ dispute_manager_rx = [value |-> NONE, changed |-> FALSE]
    /\ attestation_signers_map = <<>>
    /\ signers_rx = [value |-> <<>>, version |-> 0]
    /\ sent = [by |-> "none", dropped |-> {}, created |-> {}]

Init ==
    /\ \E sc \in Scenarios : config = sc[1] /\ env = sc[2]
    /\ scalar_tap_ravs = <<>>
    /\ redeemed = {}
    /\ StartState
    /\ SignersNotStarted

Next ==
    \/ UpdateReceiptFees_NewReceipt
    \/ UpdateReceiptFees_UpdateValue
    \/ UpdateReceiptFees_Retry
    \/ RetryTimer
    \/ UpdateReceiptFees_RavRequestResponse
    \/ UpdateReceiptFees_SelfCast
    \/ UpdateRav
    \/ UpdateInvalidReceiptFees
    \/ UpdateAllocationIds
    \/ NewAllocationId
    \/ UpdateBalanceAndLastRavs
    \/ ActorTerminated
    \/ ActorPanicked
    \/ TriggerRAVRequest
    \/ BufferExpires

Spec == Init /\ [][Next]_vars

\* The supervisor with its escrow monitor: the store holds some RAVs of the
\* sender when the actor starts.
MonitorInit ==
    /\ \E sc \in MonitorScenarios : config = sc[1] /\ env = sc[2]
    /\ scalar_tap_ravs \in StoreRows
    /\ redeemed \in SUBSET Redeemable(scalar_tap_ravs)
    /\ StartState
    /\ SignersNotStarted

MonitorNext ==
    \/ escrow_account_monitor
    \/ Redeem
    \/ UpdateRav

MonitorSpec == MonitorInit /\ [][MonitorNext]_vars

\* ------------------------------------------------ both triggers at once

\* The trigger decision alone: the requests cast stay in the children's
\* mailboxes.
PrecedenceInit ==
    /\ config = PrecedenceRun[1] /\ env = PrecedenceRun[2]
    /\ scalar_tap_ravs = <<>>
    /\ redeemed = {}
    /\ StartState
    /\ SignersNotStarted

PrecedenceNext ==
    \/ UpdateReceiptFees_NewReceipt
    \/ UpdateReceiptFees_Retry
    \/ BufferExpires

PrecedenceSpec == PrecedenceInit /\ [][PrecedenceNext]_vars

\* ------------------------------------------------- the two watch streams

\* The allocation stream and the escrow stream together: two allocations
\* that come and go, RAVs reported for them, balances and last RAVs from the
\* escrow monitor.
StreamsRun ==
    <<Tap(U128_MAX, MaxCount + 1, MAX_FEES, FALSE),
      Environment(Alloc,
                  {"UpdateRav", "UpdateAllocationIds", "UpdateBalanceAndLastRavs"},
                  {}, {MaxFee, MaxBalance}, {Alloc})>>

StreamsInit ==
    /\ config = StreamsRun[1] /\ env = StreamsRun[2]
    /\ scalar_tap_ravs = <<>>
    /\ redeemed = {}
    /\ StartState
    /\ SignersNotStarted

StreamsNext ==
    \/ UpdateRav
    \/ UpdateAllocationIds
    \/ UpdateBalanceAndLastRavs

StreamsSpec == StreamsInit /\ [][StreamsNext]_vars

\* ------------------------------------------------- requests in flight

\* One allocation with its child, which may panic or stop with a request in
\* its mailbox; the child answers every request it takes and the supervisor
\* handles every response it is sent.
FlightRun ==
    <<Tap(TRIGGER_VALUE, RECEIPT_LIMIT, U128_MAX, FALSE),
      Environment({ALLOCATION_ID_0},
                  {"NewReceipt", "RavRequestResponse", "ActorPanicked",
                   "ActorTerminated"},
                  1 .. MaxFee, {MaxBalance}, {{ALLOCATION_ID_0}})>>

FlightInit ==
    /\ config = FlightRun[1] /\ env = FlightRun[2]
    /\ scalar_tap_ravs = <<>>
    /\ redeemed = {}
    /\ StartState
    /\ SignersNotStarted

FlightNext ==
    \/ UpdateReceiptFees_NewReceipt
    \/ TriggerRAVRequest
    \/ UpdateReceiptFees_RavRequestResponse
    \/ UpdateReceiptFees_SelfCast
    \/ ActorPanicked
    \/ ActorTerminated

FlightSpec ==
    /\ FlightInit
    /\ [][FlightNext]_vars
    /\ WF_vars(TriggerRAVRequest)
    /\ WF_vars(UpdateReceiptFees_RavRequestResponse)

\* ------------------------------------------------ totals at full width

\* One allocation with its child whose trackers hold values up to u128::MAX,
\* under balances up to U256::MAX; no RAV request.
WidthRun ==
    <<Tap(U128_MAX, MaxCount + 1, U128_MAX, FALSE),
      Environment({ALLOCATION_ID_0},
                  {"UpdateValue", "UpdateRav", "UpdateInvalidReceiptFees",
                   "UpdateBalanceAndLastRavs"},
                  {}, {0, 1, U128_MAX, U128_MAX + 1, U256_MAX},
                  {{ALLOCATION_ID_0}})>>

\* The values a u128 holds, at its two ends.
WideValues == {0, 1, U128_MAX - 1, U128_MAX}

UpdateReceiptFees_UpdateValue_u128 ==
    /\ "UpdateValue" \in env.events
    /\ \E a \in env.allocs, v \in WideValues :
        LET post == handle_UpdateReceiptFees(CurrentState, a, UpdateValue(v, 0))
        IN /\ Commit(post)
           /\ last' = Handled("UpdateReceiptFees", "UpdateValue", a,
                              CurrentState, post)
           /\ UNCHANGED rav_responses

UpdateRav_u128 ==
    /\ "UpdateRav" \in env.events
    /\ \E a \in env.allocs, v \in WideValues :
        LET post == handle_UpdateRav(CurrentState, a, v)
        IN /\ Commit(post)
           /\ last' = Handled("UpdateRav", "none", a, CurrentState, post)
           /\ UNCHANGED rav_responses

UpdateInvalidReceiptFees_u128 ==
    /\ "UpdateInvalidReceiptFees" \in env.events
    /\ \E a \in env.allocs, v \in WideValues :
        LET post == handle_UpdateInvalidReceiptFees(CurrentState, a, v)
        IN /\ Commit(post)
           /\ last' = Handled("UpdateInvalidReceiptFees", "none", a,
                              CurrentState, post)
           /\ UNCHANGED rav_responses

UpdateBalance_U256 ==
    /\ "UpdateBalanceAndLastRavs" \in env.events
    /\ \E b \in env.balances :
        LET post == handle_UpdateBalanceAndLastRavs(CurrentState, b, <<>>)
        IN /\ Commit(post)
           /\ last' = Handled("UpdateBalanceAndLastRavs", "none", NONE,
                              CurrentState, post)
           /\ UNCHANGED rav_responses

WidthInit ==
    /\ config = WidthRun[1] /\ env = WidthRun[2]
    /\ scalar_tap_ravs = <<>>
    /\ redeemed = {}
    /\ StartState
    /\ SignersNotStarted

WidthNext ==
    \/ UpdateReceiptFees_UpdateValue_u128
    \/ UpdateRav_u128
    \/ UpdateInvalidReceiptFees_u128
    \/ UpdateBalance_U256

WidthSpec == WidthInit /\ [][WidthNext]_vars

\* ------------------------------------------- the deny list edited by hand

\* Receipts of a sender whose row someone may delete from the deny list: one
\* allocation without a child, no RAV request.
TamperRun ==
    <<Tap(U128_MAX, MaxCount + 1, MAX_FEES, FALSE),
      Environment({ALLOCATION_ID_0},
                  {"NewReceipt", "UpdateValue", "UpdateRav", "DeleteFromDenylist"},
                  1 .. MaxFee, Balances, {{}})>>

\* "sender was removed manually from DB": the row is deleted from outside.
DeleteFromDenylist ==
    /\ "DeleteFromDenylist" \in env.events
    /\ denylist
    /\ denylist' = FALSE
    /\ last' = NoMessage
    /\ UNCHANGED <<config, env, sender_fee_tracker, rav_tracker,
                   invalid_receipts_tracker, allocation_ids,
                   scheduled_rav_request, retry_timers, denied, sender_balance,
                   children, child_triggers, rav_responses, self_casts,
                   rav_requests, scalar_tap_ravs, redeemed, signer_vars>>

TamperInit ==
    /\ config = TamperRun[1] /\ env = TamperRun[2]
    /\ scalar_tap_ravs = <<>>
    /\ redeemed = {}
    /\ StartState
    /\ SignersNotStarted

TamperNext ==
    \/ UpdateReceiptFees_NewReceipt
    \/ UpdateReceiptFees_UpdateValue
    \/ RetryTimer
    \/ UpdateRav
    \/ DeleteFromDenylist

TamperSpec == TamperInit /\ [][TamperNext]_vars

\* ------------------------------------------ signers.rs: attestation_signers

\* The addresses the dispute manager channel may carry as Some(_).
DISPUTE_MANAGER_ADDRESS == 1
DisputeManagers == {DISPUTE_MANAGER_ADDRESS, DISPUTE_MANAGER_ADDRESS + 1}

\* HashMap<Address, Allocation>: an allocation is one whose key derives from
\* the indexer's mnemonic, or one for which no signer can be established.
AllocationMaps == UNION { [D -> {"derivable", "foreign"}] : D \in SUBSET Alloc }

\* AttestationSigner::new(..).is_ok()
signer_established(allocation) == allocation = "derivable"

\* modify_sigers keeping the signers of the allocations that are gone.
modify_sigers_without_retain(signers, allocations, dispute_manager) ==
    IF dispute_manager = NONE THEN signers
    ELSE LET created == { id \in DOMAIN allocations \ DOMAIN signers :
                            signer_established(allocations[id]) }
         IN [id \in DOMAIN signers \cup created |->
                IF id \in DOMAIN signers THEN signers[id] ELSE dispute_manager]

\* A signer is modelled by the dispute manager it was created for.
modify_sigers(signers, allocations, dispute_manager) ==
    IF dispute_manager = NONE THEN signers
    ELSE LET retained == DOMAIN signers \cap DOMAIN allocations
             created == { id \in DOMAIN allocations \ retained :
                            signer_established(allocations[id]) }
         IN [id \in retained \cup created |->
                IF id \in retained THEN signers[id] ELSE dispute_manager]

\* The sender account's variables, which attestation_signers never touches.
account_vars ==
    <<config, env, sender_fee_tracker, rav_tracker, invalid_receipts_tracker,
      allocation_ids, scheduled_rav_request, retry_timers, denied,
      sender_balance, denylist, children, child_triggers, rav_responses,
      self_casts, rav_requests, scalar_tap_ravs, redeemed, last>>

\* `signers_tx.send(updated_signers)` with what modify_sigers returns.
send_updated_signers(by) ==
    LET updated_signers == modify_sigers(attestation_signers_map,
                                         allocations_rx.value,
                                         dispute_manager_rx.value)
    IN /\ attestation_signers_map' = updated_signers
       /\ signers_rx' = [value |-> updated_signers,
                         version |-> 1 - signers_rx.version]
       /\ sent' = [by |-> by,
                   dropped |-> DOMAIN attestation_signers_map \ DOMAIN updated_signers,
                   created |-> DOMAIN updated_signers \ DOMAIN attestation_signers_map]

\* The indexer's allocations change: the pipe sends them on the channel.
allocations_tx_send ==
    /\ \E allocations \in AllocationMaps :
          allocations_rx' = [value |-> allocations, changed |-> TRUE]
    /\ UNCHANGED <<dispute_manager_rx, attestation_signers_map, signers_rx, sent>>
    /\ UNCHANGED account_vars

\* The owner of the dispute manager channel sends an address, or None.
dispute_manager_tx_send ==
    /\ \E dispute_manager \in DisputeManagers \cup {NONE} :
          dispute_manager_rx' = [value |-> dispute_manager, changed |-> TRUE]
    /\ UNCHANGED <<allocations_rx, attestation_signers_map, signers_rx, sent>>
    /\ UNCHANGED account_vars

\* `Ok(()) = allocations_rx.changed() => modify_sigers(..)`, then the send.
allocations_rx_changed ==
    /\ allocations_rx.changed
    /\ allocations_rx' = [allocations_rx EXCEPT !.changed = FALSE]
    /\ send_updated_signers("allocations_rx")
    /\ UNCHANGED dispute_manager_rx
    /\ UNCHANGED account_vars

\* `Ok(()) = dispute_manager_rx.changed() => modify_sigers(..)`, then the send.
dispute_manager_rx_changed ==
    /\ dispute_manager_rx.changed
    /\ dispute_manager_rx' = [dispute_manager_rx EXCEPT !.changed = FALSE]
    /\ send_updated_signers("dispute_manager_rx")
    /\ UNCHANGED allocations_rx
    /\ UNCHANGED account_vars

\* attestation_signers has returned: the starter map is on the channel. The
\* sender account plays no part and stays as one run starts it.
SignersInit ==
    /\ config = CountRun[1] /\ env = CountRun[2]
    /\ scalar_tap_ravs = <<>>
    /\ redeemed = {}
    /\ StartState
    /\ denylist = FALSE
    /\ allocations_rx \in [value : AllocationMaps, changed : BOOLEAN]
    /\ dispute_manager_rx \in [value : DisputeManagers \cup {NONE},
                                changed : BOOLEAN]
    /\ attestation_signers_map =
          modify_sigers(<<>>, allocations_rx.value, dispute_manager_rx.value)
    /\ signers_rx = [value |-> attestation_signers_map, version |-> 0]
    /\ sent = [by |-> "starter_signers_map", dropped |-> {},
               created |-> DOMAIN attestation_signers_map]

SignersNext ==
    \/ allocations_tx_send
    \/ dispute_manager_tx_send
    \/ allocations_rx_changed
    \/ dispute_manager_rx_changed

\* The spawned task is scheduled, and select! takes a branch that stays ready.
SignersSpec ==
    /\ SignersInit
    /\ [][SignersNext]_vars
    /\ WF_vars(allocations_rx_changed)
    /\ WF_vars(dispute_manager_rx_changed)

\* ------------------------------------------------------------- properties

\* The totals the deny condition is about, read off the state.
Unaggregated == get_total_fee(sender_fee_tracker)
PendingRavs == get_total_fee(rav_tracker)
InvalidFees == get_total_fee(invalid_receipts_tracker)
EscrowTerm == Unaggregated + PendingRavs >= sender_balance
CapTerm == Unaggregated + InvalidFees >= config.max_unnaggregated_fees_per_sender
OverLimits == EscrowTerm \/ CapTerm

StateMutating ==
    {"UpdateReceiptFees", "UpdateInvalidReceiptFees", "UpdateRav",
     "UpdateAllocationIds", "NewAllocationId", "UpdateBalanceAndLastRavs"}

\* C1, as stated: after every state-mutating message, denied equals the deny
\* condition on the post-state, except right after a NewReceipt handled while
\* the sender was already denied.
C1_AsStated ==
    (/\ last.msg \in StateMutating
     /\ ~(last.kind = "NewReceipt" /\ last.pre_denied))
        => (denied <=> OverLimits)

\* C1: after UpdateReceiptFees of every kind and after
\* UpdateBalanceAndLastRavs, denied equals the deny condition on the
\* post-state; UpdateRav and UpdateInvalidReceiptFees only ever deny (denied
\* holds if the condition holds or the sender was denied before); and
\* UpdateAllocationIds and NewAllocationId leave denied as it was.
C1_DeniedFollowsCondition ==
    /\ last.msg \in {"UpdateReceiptFees", "UpdateBalanceAndLastRavs"}
          => (denied <=> OverLimits)
    /\ last.msg \in {"UpdateRav", "UpdateInvalidReceiptFees"}
          => (denied <=> (OverLimits \/ last.pre_denied))
    /\ last.msg \in {"UpdateAllocationIds", "NewAllocationId"}
          => (denied <=> last.pre_denied)

\* An UpdateRav that lowers the pending RAVs of a denied sender below the
\* balance leaves the sender denied.
C1_Witness ==
    /\ last.msg = "UpdateRav"
    /\ denied
    /\ ~OverLimits


\* C2: once the handler of an UpdateReceiptFees, UpdateInvalidReceiptFees,
\* UpdateRav or UpdateBalanceAndLastRavs message has completed, a sender over
\* one of its limits (unaggregated + pending RAVs >= balance, or
\* unaggregated + invalid >= max_unaggregated_fees_per_sender) is denied and
\* is in the deny list of the store.
C2_NeverAllowedOverLimits ==
    (/\ last.msg \in {"UpdateReceiptFees", "UpdateInvalidReceiptFees",
                      "UpdateRav", "UpdateBalanceAndLastRavs"}
     /\ OverLimits)
        => (denied /\ denylist)

\* Invalid receipt fees take an allowed sender over the cap while the escrow
\* still covers it, and the handler denies it.
C2_Witness ==
    /\ last.msg = "UpdateInvalidReceiptFees"
    /\ ~last.pre_denied
    /\ CapTerm /\ ~EscrowTerm
    /\ denied /\ denylist


\* C3: for every allocation at most one RAV request is in flight: the
\* TriggerRAVRequest messages sent to it minus the RavRequestResponse
\* messages handled for it is 0 or 1, and it is 1 exactly while the tracker
\* marks the allocation as having a request running; so no handler sends a
\* second TriggerRAVRequest to an allocation in flight, on either path.
C3_AtMostOneInFlight ==
    \A a \in Alloc :
        /\ rav_requests[a] \in {0, 1}
        /\ rav_requests[a] = 1
              <=> check_allocation_has_rav_request_running(sender_fee_tracker, a)

\* A Retry for an allocation in flight whose receipts outside the buffer have
\* reached the receipt limit sends it no second request.
C3_Witness ==
    \E a \in Alloc :
        /\ last.msg = "UpdateReceiptFees" /\ last.kind = "Retry" /\ last.alloc = a
        /\ rav_requests[a] = 1
        /\ get_total_counter_outside_buffer_for_allocation(sender_fee_tracker, a)
              >= config.rav_request_receipt_limit
        /\ value_outside_buffer(sender_fee_tracker, a)
              >= config.rav_request_trigger_value
        /\ a \notin last.triggered


\* C4: with a balance the fees do not reach (escrow term false) and no RAV
\* request sent, after UpdateReceiptFees(a, UpdateValue(v)) the sender is
\* denied, and in the deny list, exactly when unaggregated + invalid >=
\* max_unaggregated_fees_per_sender: denied at equality, allowed and off the
\* deny list one unit below.
C4_DeniedAtCap ==
    (/\ last.msg = "UpdateReceiptFees" /\ last.kind = "UpdateValue"
     /\ ~EscrowTerm
     /\ last.triggered = {})
        => /\ denied <=> CapTerm
           /\ denylist <=> CapTerm

\* An UpdateValue that takes an allowed sender exactly to the cap.
C4_Witness ==
    /\ last.msg = "UpdateReceiptFees" /\ last.kind = "UpdateValue"
    /\ ~last.pre_denied
    /\ ~EscrowTerm
    /\ last.triggered = {}
    /\ Unaggregated + InvalidFees = config.max_unnaggregated_fees_per_sender
    /\ denied /\ denylist

\* C5: with the cap disabled (max = u128::MAX), after
\* UpdateReceiptFees(a, UpdateValue(v)) the sender is denied exactly when
\* unaggregated + pending RAVs >= sender_balance, and after a successful
\* RavRequestResponse that moved value from unaggregated to pending RAVs the
\* sender is denied as long as the pending RAVs alone are >= sender_balance.
C5_DeniedAtBalance ==
    (/\ config.max_unnaggregated_fees_per_sender = U128_MAX
     /\ last.msg = "UpdateReceiptFees")
        => /\ last.kind = "UpdateValue" => (denied <=> EscrowTerm)
           /\ (last.kind = "RavRequestResponse" /\ PendingRavs >= sender_balance)
                 => denied

\* A successful RAV request has moved all the unaggregated fees of a denied
\* sender to the pending RAVs, which alone cover the balance.
C5_Witness ==
    /\ config.max_unnaggregated_fees_per_sender = U128_MAX
    /\ last.msg = "UpdateReceiptFees" /\ last.kind = "RavRequestResponse"
    /\ last.pre_denied
    /\ sender_balance > 0
    /\ Unaggregated = 0
    /\ PendingRavs >= sender_balance
    /\ denied


\* Every receipt the tracker holds is still inside the timestamp buffer.
AllInsideBuffer ==
    \A a \in Alloc :
        /\ value_outside_buffer(sender_fee_tracker, a) = 0
        /\ get_total_counter_outside_buffer_for_allocation(sender_fee_tracker, a) = 0

\* The buffer has drained, allocation a holds all the unaggregated fees, at
\* least the trigger value, and can be asked for a RAV: it has a child, is
\* not blocked and has no request in flight.
ReadyAfterBuffer(a) ==
    /\ sender_fee_tracker = expire_buffer(sender_fee_tracker)
    /\ sender_fee_tracker.fee[a] >= config.rav_request_trigger_value
    /\ \A b \in Alloc \ {a} : sender_fee_tracker.fee[b] = 0
    /\ where_is(CurrentState, a)
    /\ a \notin sender_fee_tracker.blocked
    /\ ~check_allocation_has_rav_request_running(sender_fee_tracker, a)

\* C6: receipts still inside the timestamp buffer do not move the triggers:
\* an UpdateReceiptFees handled while every receipt is inside the buffer
\* (a NewReceipt of at least the trigger value included) sends no
\* TriggerRAVRequest; and once the buffer has drained, the next
\* UpdateReceiptFees(a, Retry) sends exactly one TriggerRAVRequest, to a.
C6_BufferThenTrigger ==
    /\ [](last.msg = "UpdateReceiptFees" /\ AllInsideBuffer
             => last.triggered = {})
    /\ [][\A a \in Alloc :
            (/\ last'.msg = "UpdateReceiptFees" /\ last'.kind = "Retry"
             /\ last'.alloc = a
             /\ ReadyAfterBuffer(a))
                => /\ last'.triggered = {a}
                   /\ child_triggers'[a] = child_triggers[a] + 1
                   /\ rav_requests'[a] = 1]_vars

\* A receipt of the trigger value has left the buffer and the Retry handled
\* next has asked its allocation for a RAV, on the value path.
C6_Witness ==
    \E a \in Alloc :
        /\ config.buffered
        /\ last.msg = "UpdateReceiptFees" /\ last.kind = "Retry" /\ last.alloc = a
        /\ last.triggered = {a}
        /\ sender_fee_tracker = expire_buffer(sender_fee_tracker)
        /\ sender_fee_tracker.fee[a] >= config.rav_request_trigger_value
        /\ sender_fee_tracker.count[a] < config.rav_request_receipt_limit
        /\ rav_requests[a] = 1


\* The tracker as the trigger decision of the last handler saw it: the
\* decision itself only marks the allocations it sent a request to.
TrackerAtDecision ==
    [sender_fee_tracker EXCEPT !.requesting = @ \ last.triggered]

\* C7: an UpdateReceiptFees handler sends no RAV request when, after its
\* mutation, the total value outside the buffer is below the trigger value
\* and the message's allocation has fewer than receipt_limit receipts outside
\* the buffer; a NewReceipt then leaves its value in the tracker, and a
\* sender within its limits is not denied.
C7_NoRequestBelowTrigger ==
    /\ [](( /\ last.msg = "UpdateReceiptFees"
            /\ get_total_fee_outside_buffer(TrackerAtDecision)
                  < config.rav_request_trigger_value
            /\ get_total_counter_outside_buffer_for_allocation(
                   TrackerAtDecision, last.alloc)
                  < config.rav_request_receipt_limit )
              => /\ last.triggered = {}
                 /\ ~OverLimits => ~denied)
    /\ [][(last'.msg = "UpdateReceiptFees" /\ last'.kind = "NewReceipt")
            => \E v \in env.receipts :
                 /\ sender_fee_tracker'.fee =
                      [sender_fee_tracker.fee EXCEPT ![last'.alloc] = @ + v]
                 /\ sender_fee_tracker'.count =
                      [sender_fee_tracker.count EXCEPT ![last'.alloc] = @ + 1]]_vars

\* Receipts totalling one unit less than the trigger value, outside any
\* buffer, for an allocation with a child: no request, the value is in the
\* tracker and the sender is not denied.
C7_Witness ==
    \E a \in Alloc :
        /\ last.msg = "UpdateReceiptFees" /\ last.kind = "NewReceipt" /\ last.alloc = a
        /\ where_is(CurrentState, a)
        /\ sender_fee_tracker = expire_buffer(sender_fee_tracker)
        /\ sender_fee_tracker.fee[a] = config.rav_request_trigger_value - 1
        /\ sender_fee_tracker.fee[a] > 0
        /\ Unaggregated = sender_fee_tracker.fee[a]
        /\ last.triggered = {}
        /\ ~denied

\* C8: when the receipts of allocation a outside the buffer have reached
\* receipt_limit, a has no RAV request in flight and a's child is there to
\* take the message, an UpdateReceiptFees for a sends exactly one
\* TriggerRAVRequest, to a, whatever the total value outside the buffer; with
\* fewer receipts outside the buffer a request is only sent on the value
\* path, to the heaviest allocation.
C8_CountPath ==
    \A a \in Alloc :
        (last.msg = "UpdateReceiptFees" /\ last.alloc = a)
            => IF get_total_counter_outside_buffer_for_allocation(TrackerAtDecision, a)
                     >= config.rav_request_receipt_limit
               THEN (/\ ~check_allocation_has_rav_request_running(TrackerAtDecision, a)
                     /\ where_is(CurrentState, a))
                        => /\ last.triggered = {a}
                           /\ rav_requests[a] = 1
               ELSE last.triggered # {}
                        => /\ get_total_fee_outside_buffer(TrackerAtDecision)
                                >= config.rav_request_trigger_value
                           /\ last.triggered =
                                {get_heaviest_allocation_id(TrackerAtDecision)}

\* The count path has sent a request although the value outside the buffer
\* is below the trigger value.
C8_Witness ==
    \E a \in Alloc :
        /\ last.msg = "UpdateReceiptFees" /\ last.alloc = a
        /\ get_total_counter_outside_buffer_for_allocation(TrackerAtDecision, a)
              >= config.rav_request_receipt_limit
        /\ get_total_fee_outside_buffer(TrackerAtDecision)
              < config.rav_request_trigger_value
        /\ last.triggered = {a}
        /\ rav_requests[a] = 1


C10_BalanceReconciles ==
    last.msg = "UpdateBalanceAndLastRavs"
        => /\ (~last.pre_denied /\ EscrowTerm) => (denied /\ denylist)
           /\ (last.pre_denied /\ ~OverLimits) => (~denied /\ ~denylist)

\* A sender denied with pending RAVs is allowed by a higher balance.
C10_Witness ==
    /\ last.msg = "UpdateBalanceAndLastRavs"
    /\ last.pre_denied
    /\ PendingRavs > 0
    /\ ~OverLimits
    /\ ~denied /\ ~denylist

\* The deny condition holds, and would not hold without the unaggregated
\* fees of allocation a: the sender is over its limits because of the
\* receipts on a.
OverLimitsByReceiptsOn(a) ==
    /\ OverLimits
    /\ ~deny_condition_reached(
           [CurrentState EXCEPT !.sender_fee_tracker = update(@, a, 0, 0)])

C12_DeniedFromStore ==
    last.msg = "pre_start" => (denied <=> denylist)

\* A sender that is in the deny list starts denied, whatever its fees and
\* balance (here: no fees and a balance above zero).
C12_Witness ==
    /\ last.msg = "pre_start"
    /\ denylist /\ denied
    /\ ~OverLimits

\* The store's RAVs of the sender that are last and not final, those of them
\* the subgraph has not seen redeemed, and their totals.
LastNonFinal ==
    { a \in DOMAIN scalar_tap_ravs :
        scalar_tap_ravs[a].last /\ ~scalar_tap_ravs[a].final }
Unredeemed == LastNonFinal \ redeemed
RavTotal(ids) ==
    SumOver([a \in Alloc |-> IF a \in ids
                              THEN scalar_tap_ravs[a].value_aggregate ELSE 0],
            Alloc)

\* The first message the supervisor handles is the one its escrow monitor
\* casts at start-up.
MonitorAtStartup ==
    /\ last.msg = "pre_start"
    /\ last'.msg = "UpdateBalanceAndLastRavs"
    /\ last'.kind = "escrow_account_monitor"

\* C13, as stated: when the store holds last, non-final RAVs of the sender
\* whose total value is at least the escrow balance, the supervisor is denied
\* once the message of the escrow monitor at start-up is handled.
C13_AsStated ==
    [][(MonitorAtStartup /\ RavTotal(LastNonFinal) >= sender_balance')
          => denied']_vars

\* C13: when the store holds last, non-final RAVs of the sender that the
\* escrow subgraph has not seen redeemed and whose total value is at least
\* the escrow balance, the supervisor is denied, and in the deny list, once
\* the message of the escrow monitor at start-up is handled, whether or not
\* the sender was in the deny list before.
C13_DeniedByPendingRavs ==
    [][(MonitorAtStartup /\ RavTotal(Unredeemed) >= sender_balance')
          => (denied' /\ denylist')]_vars

\* A sender that started allowed, with no allocation open, has been denied
\* by the monitor's message: the unredeemed last RAVs of the store are its
\* pending RAVs and cover a balance above zero.
C13_Witness ==
    /\ last.msg = "UpdateBalanceAndLastRavs"
    /\ last.kind = "escrow_account_monitor"
    /\ ~last.pre_denied
    /\ allocation_ids = {}
    /\ sender_balance > 0
    /\ PendingRavs = RavTotal(Unredeemed)
    /\ PendingRavs >= sender_balance
    /\ denied /\ denylist

\* The last message handled is one of the escrow monitor; the allocations
\* the subgraph reported to it as redeemed.
FromMonitor ==
    last.msg = "UpdateBalanceAndLastRavs" /\ last.kind = "escrow_account_monitor"
ReportedRedeemed ==
    { a \in Alloc :
        /\ last.monitor.response.ok
        /\ hex_debug(a) \in last.monitor.response.transactions }

\* The map the monitor passes on holds exactly the RAVs of the store that
\* are last, not final and not reported as redeemed.
MonitorPassesUnredeemed ==
    FromMonitor
        => last.monitor.ravs =
              [a \in LastNonFinal \ ReportedRedeemed
                  |-> scalar_tap_ravs[a].value_aggregate]

\* C14, as stated: the monitor's UpdateBalanceAndLastRavs carries exactly the
\* RAVs of the store that are last, not final and not reported as redeemed;
\* once it is handled, a RAV reported as redeemed and a final RAV do not
\* count toward the pending RAVs, so a sender whose only pending RAVs were
\* redeemed (no unaggregated fees, a balance above zero) is not denied.
C14_AsStated ==
    FromMonitor
        => /\ MonitorPassesUnredeemed
           /\ \A a \in DOMAIN scalar_tap_ravs :
                 (a \in ReportedRedeemed \/ scalar_tap_ravs[a].final)
                    => rav_tracker.fee[a] = 0
           /\ (/\ \A a \in Alloc :
                     rav_tracker.fee[a] > 0
                        => /\ a \in DOMAIN scalar_tap_ravs
                           /\ \/ a \in ReportedRedeemed
                              \/ scalar_tap_ravs[a].final
               /\ Unaggregated = 0 /\ InvalidFees = 0
               /\ sender_balance > 0)
                 => ~denied

\* C14: the monitor's UpdateBalanceAndLastRavs carries exactly the RAVs of
\* the store that are last, not final and not reported as redeemed; once it
\* is handled, a RAV reported as redeemed and a final RAV do not count toward
\* the pending RAVs unless their allocation is still in allocation_ids, each
\* RAV passed on counts with its value, and a sender left without pending
\* RAVs (no unaggregated fees, a balance above zero) is not denied.
C14_RedeemedRavsDropped ==
    FromMonitor
        => /\ MonitorPassesUnredeemed
           /\ \A a \in DOMAIN last.monitor.ravs :
                 rav_tracker.fee[a] = last.monitor.ravs[a]
           /\ \A a \in DOMAIN scalar_tap_ravs \ allocation_ids :
                 (a \in ReportedRedeemed \/ scalar_tap_ravs[a].final)
                    => rav_tracker.fee[a] = 0
           /\ (/\ PendingRavs = 0
               /\ Unaggregated = 0 /\ InvalidFees = 0
               /\ sender_balance > 0)
                 => (~denied /\ ~denylist)

\* A sender denied by the last RAV of a closed allocation is allowed by the
\* monitor's next message once the subgraph reports the RAV as redeemed: the
\* RAV, which covers the balance, counts no longer.
C14_Witness ==
    \E a \in LastNonFinal \ allocation_ids :
        /\ FromMonitor
        /\ a \in ReportedRedeemed
        /\ last.pre_denied
        /\ sender_balance > 0
        /\ scalar_tap_ravs[a].value_aggregate >= sender_balance
        /\ rav_tracker.fee[a] = 0
        /\ ~denied /\ ~denylist

\* C15, as stated: at every message boundary every allocation id in
\* allocation_ids has a child in the registry, and every child that has not
\* been asked to stop belongs to an id in allocation_ids (the registry holds
\* at most one child under a name).
C15_AsStated ==
    \A a \in Alloc :
        /\ a \in allocation_ids => where_is(CurrentState, a)
        /\ children[a] = "alive" => a \in allocation_ids

\* C16 (as stated): whatever state the supervisor is in and whatever set
\* arrives, and even when no child fails to start, handling
\* UpdateAllocationIds(new_set) leaves allocation_ids equal to new_set, a
\* running child for every id of new_set that was not in the set before, and
\* no running child (none, or one that was asked to stop) for an id of the
\* set before that is not in new_set.
C16_AsStated ==
    \A new_set \in SUBSET env.allocs :
        LET post == handle_UpdateAllocationIds(CurrentState, new_set, Alloc)
        IN /\ post.allocation_ids = new_set
           /\ \A a \in new_set \ allocation_ids : post.children[a] = "alive"
           /\ \A a \in allocation_ids \ new_set : post.children[a] # "alive"

\* C17: at most one retry timer is waiting at any time, and it is the one
\* the state holds the handle of; after every UpdateReceiptFees the only
\* timer that may be waiting is the one that handler scheduled for its own
\* allocation, and no other handler adds a timer.
C17_AtMostOneRetryTimer ==
    /\ [](/\ retry_timers <= 1
          /\ retry_timers = 1 <=> scheduled_rav_request # NONE)
    /\ [][/\ retry_timers' > retry_timers => last'.msg = "UpdateReceiptFees"
          /\ (last'.msg = "UpdateReceiptFees" /\ retry_timers' > 0)
                => scheduled_rav_request' = last'.alloc]_vars

\* An UpdateReceiptFees for one allocation was handled while the timer of
\* the other was waiting, and one timer is waiting after it.
C17_Witness ==
    /\ last.msg = "UpdateReceiptFees"
    /\ last.pre_timer \notin {NONE, last.alloc}
    /\ retry_timers = 1
    /\ scheduled_rav_request = last.alloc

\* C18 (as stated): no handled message lowers the invalid-receipts value
\* tracked for an allocation.
C18_AsStated ==
    [][\A a \in Alloc :
          invalid_receipts_tracker'.fee[a] >= invalid_receipts_tracker.fee[a]]_vars

\* C19: an UpdateAllocationIds(S) handled right after an
\* UpdateAllocationIds(S) changes neither allocation_ids, nor the children,
\* nor any of the three trackers (blocked flags included), nor denied.
C19_UpdateAllocationIdsIdempotent ==
    [][(last'.msg = "UpdateAllocationIds" /\ last'.repeated)
          => UNCHANGED <<allocation_ids, children, sender_fee_tracker,
                         rav_tracker, invalid_receipts_tracker, denied>>]_vars

\* The same set was handled twice in a row; the first time it left an id
\* without a child or a removed child blocked and stopping.
C19_Witness ==
    /\ last.msg = "UpdateAllocationIds"
    /\ last.repeated
    /\ \E a \in Alloc :
          \/ a \in allocation_ids /\ children[a] = "none"
          \/ /\ a \notin allocation_ids
             /\ children[a] = "stopping"
             /\ a \in sender_fee_tracker.blocked

\* C20 (as stated): from every reachable state and for every id, handling
\* NewAllocationId(id) and then UpdateAllocationIds({id}) gives the same
\* allocation_ids, children and trackers as handling UpdateAllocationIds({id})
\* alone, the children's start-up going the same way on both paths, and an
\* UpdateAllocationIds({}) after them leaves id without a running child.
C20_AsStated ==
    \A id \in env.allocs, spawned \in SUBSET env.allocs :
        LET added == handle_NewAllocationId(CurrentState, id, id \in spawned)
            both == handle_UpdateAllocationIds(added, {id}, spawned)
            single == handle_UpdateAllocationIds(CurrentState, {id}, spawned)
            later == handle_UpdateAllocationIds(both, {}, spawned)
        IN /\ both.allocation_ids = single.allocation_ids
           /\ both.children = single.children
           /\ both.sender_fee_tracker = single.sender_fee_tracker
           /\ both.rav_tracker = single.rav_tracker
           /\ both.invalid_receipts_tracker = single.invalid_receipts_tracker
           /\ later.children[id] # "alive"

\* C21: whenever the supervisor is between two messages, the sender has a
\* row in the deny list exactly when denied is true.
C21_DenyListMirrorsDenied == denied <=> denylist

\* A handler has allowed a sender that was denied when it began, and the row
\* is gone; or it has denied a sender that was allowed, and the row is there.
C21_Witness ==
    /\ last.msg \notin {"pre_start", "none"}
    /\ last.pre_denied # denied
    /\ denylist = denied

\* The keys of the map are allocations of the set, and every allocation of
\* the set whose signer can be established has one.
SignersFollow(signers, allocations) ==
    /\ DOMAIN signers \subseteq DOMAIN allocations
    /\ \A id \in DOMAIN allocations :
          signer_established(allocations[id]) => id \in DOMAIN signers
    /\ allocations = <<>> => signers = <<>>

\* C22: every map published while a dispute manager address is known
\* follows the allocation set it was made from (no signer of an allocation
\* that is gone, a signer for every allocation that can have one, the empty
\* map for the empty set), and every change of the allocation set is
\* followed by such a publication.
C22_SignersFollowAllocations ==
    /\ [][(signers_rx'.version # signers_rx.version
              /\ dispute_manager_rx'.value # NONE)
            => SignersFollow(signers_rx'.value, allocations_rx'.value)]_vars
    /\ (allocations_rx.changed ~> ~allocations_rx.changed)

\* The allocation set changed with a dispute manager known: the map sent for
\* it dropped the signer of an allocation that is gone and has a signer for
\* an allocation of the new set.
C22_Witness ==
    /\ sent.by = "allocations_rx"
    /\ dispute_manager_rx.value # NONE
    /\ sent.dropped # {}
    /\ signers_rx.value # <<>>
    /\ ~allocations_rx.changed

\* A NewReceipt has just been handled by a supervisor that was denied when
\* the handler began.
NewReceiptWhileDenied ==
    /\ last.msg = "UpdateReceiptFees"
    /\ last.kind = "NewReceipt"
    /\ last.pre_denied

\* C23 (as stated): after a NewReceipt handled while denied, denied is still
\* true and the sender is in the deny list.
C23_AsStated == NewReceiptWhileDenied => (denied /\ denylist)

\* C23: after a NewReceipt handled while denied, the sender is denied and in
\* the deny list, whether or not its row was there before, if the deny
\* condition holds on the post-state; otherwise it is allowed and its row is
\* deleted.
C23_ReassertedWhileOverLimits ==
    NewReceiptWhileDenied
        => IF OverLimits THEN denied /\ denylist ELSE ~denied /\ ~denylist

\* The row had been deleted by hand; the receipt put it back and the sender
\* stays denied.
C23_Witness ==
    /\ NewReceiptWhileDenied
    /\ ~last.pre_denylist
    /\ denied
    /\ denylist

\* C24: every TriggerRAVRequest an UpdateReceiptFees handler casts is cast
\* with the sender already denied if the deny condition holds at that point:
\* the eager deny comes before the request.
C24_DenyBeforeRavRequest ==
    \A cast \in last.cast_in : cast.over => cast.denied

\* The message handled took an allowed sender over its limits: it was denied
\* first, and the request was cast with denied already true.
C24_Witness ==
    /\ last.msg = "UpdateReceiptFees"
    /\ ~last.pre_denied
    /\ last.triggered # {}
    /\ \E cast \in last.cast_in : cast.over /\ cast.denied
    /\ denied
    /\ denylist

\* Both triggers hold for the message handled last, sent for allocation a
\* whose child is there to take a request.
BothTriggers(a) ==
    /\ last.msg = "UpdateReceiptFees"
    /\ last.alloc = a
    /\ get_total_counter_outside_buffer_for_allocation(TrackerAtDecision, a)
          >= config.rav_request_receipt_limit
    /\ ~check_allocation_has_rav_request_running(TrackerAtDecision, a)
    /\ get_total_fee_outside_buffer(TrackerAtDecision)
          >= config.rav_request_trigger_value
    /\ where_is(CurrentState, a)

\* C25: when both triggers hold, the handler casts one TriggerRAVRequest and
\* casts it to the message's allocation, the heaviest allocation being that
\* one or another.
C25_ReceiptLimitFirst ==
    \A a \in Alloc :
        BothTriggers(a)
            => /\ last.triggered = {a}
               /\ Cardinality(last.cast_in) = 1
               /\ a \in sender_fee_tracker.requesting

\* Both triggers held and the heaviest allocation was not the message's.
C25_Witness ==
    \E a \in Alloc :
        /\ BothTriggers(a)
        /\ get_heaviest_allocation_id(TrackerAtDecision) \notin {a, NONE}
        /\ last.triggered = {a}

\* C26 (as stated): no handler casts a TriggerRAVRequest to an allocation
\* that is blocked, on the value path or on the receipt-limit path.
C26_AsStated ==
    \A a \in sender_fee_tracker.blocked : a \notin last.triggered

\* A RavRequestResponse(Err) for allocation a has just been handled: the
\* handler recorded its backoff, which only a later Ok response clears.
FailedResponse(a) ==
    /\ last.msg = "UpdateReceiptFees"
    /\ last.kind = "RavRequestResponse"
    /\ last.alloc = a
    /\ a \in rav_tracker.backoff

\* C27 (as stated): after a failed RAV request for a, the tracker the
\* trigger decision reads holds a backoff for a, and the value path of that
\* decision does not pick a as the heaviest allocation.
C27_AsStated ==
    \A a \in Alloc :
        FailedResponse(a)
            => /\ a \in sender_fee_tracker.backoff
               /\ get_total_counter_outside_buffer_for_allocation(
                      TrackerAtDecision, a) < config.rav_request_receipt_limit
                    => a \notin last.triggered

\* The values and counters the three trackers hold for the allocations
\* other than a are the same in s and t.
OthersUntouched(s, t, a) ==
    \A b \in Alloc \ {a} :
        /\ t.sender_fee_tracker.fee[b] = s.sender_fee_tracker.fee[b]
        /\ t.sender_fee_tracker.count[b] = s.sender_fee_tracker.count[b]
        /\ t.rav_tracker.fee[b] = s.rav_tracker.fee[b]
        /\ t.invalid_receipts_tracker.fee[b] = s.invalid_receipts_tracker.fee[b]

\* The Ok responses that may answer the request in flight for a.
OkResponses ==
    { RavRequestResponse(TRUE, v, c, rav) :
        v \in FeeValues, c \in Counters, rav \in FeeValues \cup {NONE} }

\* What handling the Ok response r for a does to the values: the pending
\* RAV of a is the RAV's value, or 0 without a RAV, the unaggregated fees of
\* a are the response's, and the other allocations keep theirs.
OkResponseApplied(post, a, r) ==
    /\ post.rav_tracker.fee[a] = (IF r.rav = NONE THEN 0 ELSE r.rav)
    /\ post.sender_fee_tracker.fee[a] = r.value
    /\ post.sender_fee_tracker.count[a] = r.counter
    /\ OthersUntouched(CurrentState, post, a)

\* C28 (as stated): in every state where a response is due for a, handling
\* RavRequestResponse(Ok(u, rav)) leaves a not in flight, with the RAV's
\* value pending and (u.value, u.counter) unaggregated, and the other
\* allocations as they were.
C28_AsStated ==
    \A a \in Alloc : \A r \in OkResponses :
        rav_responses[a] > 0
            => LET post == handle_UpdateReceiptFees(CurrentState, a, r)
               IN /\ OkResponseApplied(post, a, r)
                  /\ a \notin post.sender_fee_tracker.requesting

\* C28: the same, a being in flight afterwards exactly when the trigger
\* decision of that handler has cast a new request to a.
C28_OkResponseApplied ==
    \A a \in Alloc : \A r \in OkResponses :
        rav_responses[a] > 0
            => LET post == handle_UpdateReceiptFees(CurrentState, a, r)
               IN /\ OkResponseApplied(post, a, r)
                  /\ a \in post.sender_fee_tracker.requesting
                        <=> post.child_triggers[a] > child_triggers[a]

\* An Ok response for a has been handled: a RAV is pending for a, a is not
\* backing off and no new request was sent.
C28_Witness ==
    \E a \in Alloc :
        /\ last.msg = "UpdateReceiptFees"
        /\ last.kind = "RavRequestResponse"
        /\ last.alloc = a
        /\ a \notin rav_tracker.backoff
        /\ rav_tracker.fee[a] > 0
        /\ a \notin sender_fee_tracker.requesting

\* Handling the step leaves every unaggregated, pending-RAV and invalid
\* value and counter as it was.
ValuesUnchanged ==
    /\ sender_fee_tracker'.fee = sender_fee_tracker.fee
    /\ sender_fee_tracker'.count = sender_fee_tracker.count
    /\ rav_tracker'.fee = rav_tracker.fee
    /\ invalid_receipts_tracker'.fee = invalid_receipts_tracker.fee

\* C29 (as stated): handling RavRequestResponse(Err) for a leaves every
\* unaggregated, pending-RAV and invalid value and counter unchanged, only
\* clears the in-flight flag of a and records its backoff, and leaves denied
\* as it was before the message.
C29_AsStated ==
    [][\A a \in Alloc :
          FailedResponse(a)'
              => /\ ValuesUnchanged
                 /\ sender_fee_tracker'.requesting
                        = sender_fee_tracker.requesting \ {a}
                 /\ rav_tracker'.backoff = rav_tracker.backoff \cup {a}
                 /\ denied' = denied]_vars

\* C29: handling RavRequestResponse(Err) for a leaves every unaggregated,
\* pending-RAV and invalid value and counter unchanged, clears the in-flight
\* flag of a, records its backoff, puts in flight again the allocation the
\* trigger decision of the handler asks, if any, and never denies: denied
\* stays as it was, except that a sender that was denied while the deny
\* condition no longer held is allowed.
C29_FailedResponseFrame ==
    [][\A a \in Alloc :
          FailedResponse(a)'
              => /\ ValuesUnchanged
                 /\ sender_fee_tracker'.requesting
                        = (sender_fee_tracker.requesting \ {a})
                              \cup last'.triggered
                 /\ rav_tracker'.backoff = rav_tracker.backoff \cup {a}
                 /\ denied' = (denied /\ OverLimits)]_vars

\* A failed response for a has been handled with fees unaggregated on a and
\* the sender denied, and is denied still.
C29_Witness ==
    \E a \in Alloc :
        /\ FailedResponse(a)
        /\ sender_fee_tracker.fee[a] > 0
        /\ last.pre_denied
        /\ denied

\* C30: in every state, handling UpdateBalanceAndLastRavs(b, m) sets
\* sender_balance to b and the pending RAV of every allocation of m to its
\* value in m, resets to 0 the pending RAV of every tracked allocation that
\* is neither in allocation_ids nor in m, leaves the pending RAV of the
\* allocations of allocation_ids that m does not name, and leaves the
\* unaggregated and the invalid trackers as they were.
C30_BalanceAndLastRavsApplied ==
    \A b \in env.balances : \A m \in RavMaps :
        LET post == handle_UpdateBalanceAndLastRavs(CurrentState, b, m)
        IN /\ post.sender_balance = b
           /\ \A a \in DOMAIN m : post.rav_tracker.fee[a] = m[a]
           /\ \A a \in get_list_of_allocation_ids(rav_tracker)
                        \ (allocation_ids \cup DOMAIN m) :
                  post.rav_tracker.fee[a] = 0
           /\ \A a \in allocation_ids \ DOMAIN m :
                  post.rav_tracker.fee[a] = rav_tracker.fee[a]
           /\ post.sender_fee_tracker = sender_fee_tracker
           /\ post.invalid_receipts_tracker = invalid_receipts_tracker

\* UpdateBalanceAndLastRavs has been handled by a sender that has fees
\* unaggregated, and leaves it with a balance and a RAV pending on an
\* allocation of its own.
C30_Witness ==
    /\ last.msg = "UpdateBalanceAndLastRavs"
    /\ sender_balance > 0
    /\ \E a \in allocation_ids : rav_tracker.fee[a] > 0
    /\ get_total_fee(sender_fee_tracker) > 0

\* C31: a sender denied before an UpdateInvalidReceiptFees or an UpdateRav
\* is handled is still denied afterwards, whatever value the message
\* carries; denied goes from true to false only in the handler of an
\* UpdateReceiptFees or of an UpdateBalanceAndLastRavs.
C31_OnlyDeny ==
    [][/\ (last'.msg \in {"UpdateInvalidReceiptFees", "UpdateRav"} /\ denied)
              => denied'
       /\ (denied /\ ~denied')
              => last'.msg \in {"UpdateReceiptFees",
                                "UpdateBalanceAndLastRavs"}]_vars

\* An UpdateInvalidReceiptFees has been handled for a denied sender and
\* leaves it under its limits, and the sender is denied still.
C31_Witness ==
    /\ last.msg = "UpdateInvalidReceiptFees"
    /\ last.pre_denied
    /\ ~OverLimits
    /\ denied /\ denylist

\* C32: the handler of the termination of a's child unblocks a and casts
\* UpdateReceiptFees(a, UpdateValue(0)) to the supervisor itself, and
\* changes neither the pending RAVs, nor the invalid tracker, nor denied,
\* nor allocation_ids; once the cast message is handled, the unaggregated
\* value and counter of a are 0.
C32_TerminatedReconciles ==
    [][/\ last'.msg = "ActorTerminated"
              => /\ last'.alloc \notin sender_fee_tracker'.blocked
                 /\ last'.alloc \in self_casts'
                 /\ UNCHANGED <<rav_tracker, invalid_receipts_tracker,
                                denied, allocation_ids>>
       /\ last'.self_cast
              => /\ sender_fee_tracker'.fee[last'.alloc] = 0
                 /\ sender_fee_tracker'.count[last'.alloc] = 0
                 /\ last'.alloc \notin self_casts']_vars

\* The message the supervisor cast to itself on the termination of a's
\* child has been handled, with a RAV of a still pending.
C32_Witness ==
    /\ last.self_cast
    /\ sender_fee_tracker.fee[last.alloc] = 0
    /\ rav_tracker.fee[last.alloc] > 0

\* C33 (as stated): once the panic of a's child is handled a has a fresh
\* child, and the trackers, denied, sender_balance and allocation_ids are as
\* they were; an event whose cell has no name or a malformed one changes
\* nothing.
C33_AsStated ==
    /\ [][last'.msg = "ActorPanicked"
              => /\ children'[last'.alloc] = "alive"
                 /\ UNCHANGED <<sender_fee_tracker, rav_tracker,
                                invalid_receipts_tracker, denied,
                                sender_balance, allocation_ids>>]_vars
    /\ [](\A cell_name \in {NONE, BAD_NAME} : \A spawn_ok \in BOOLEAN :
              handle_supervisor_evt(CurrentState, "ActorPanicked",
                                    cell_name, spawn_ok) = CurrentState)

\* One of the two triggers holds on the tracker t for a message about a.
TriggerFires(t, a) ==
    \/ /\ get_total_counter_outside_buffer_for_allocation(t, a)
              >= config.rav_request_receipt_limit
       /\ ~check_allocation_has_rav_request_running(t, a)
    \/ get_total_fee_outside_buffer(t) >= config.rav_request_trigger_value

\* C34: the handler of an UpdateReceiptFees marks an allocation as having a
\* request in flight only if it has sent a TriggerRAVRequest to the
\* registered actor of that allocation; when it sends none, a trigger
\* having fired or not, no allocation is newly marked and the handler still
\* ends with its allow / re-arm step: the sender is denied exactly if it is
\* over its limits, with a retry scheduled exactly if it is denied.
C34_NoRequestNoMark ==
    [][last'.msg = "UpdateReceiptFees"
          => /\ sender_fee_tracker'.requesting \ sender_fee_tracker.requesting
                    \subseteq last'.triggered
             /\ \A b \in last'.triggered : children[b] # "none"
             /\ last'.triggered = {}
                    => /\ sender_fee_tracker'.requesting
                              \subseteq sender_fee_tracker.requesting
                       /\ denied' <=> OverLimits'
                       /\ denied' <=> scheduled_rav_request' = last'.alloc
                       /\ ~denied' <=> scheduled_rav_request' = NONE]_vars

\* A trigger has fired in the handler of an UpdateReceiptFees and no
\* request could be sent; the sender is denied and its retry scheduled.
C34_Witness ==
    /\ last.msg = "UpdateReceiptFees"
    /\ last.triggered = {}
    /\ TriggerFires(sender_fee_tracker, last.alloc)
    /\ sender_fee_tracker.requesting = {}
    /\ denied
    /\ scheduled_rav_request = last.alloc

\* C35 (as stated): a RavRequestResponse for a handled right after the
\* termination event of a's child changes neither the pending RAV of a, nor
\* the unaggregated value of a, nor denied.
C35_AsStated ==
    [][(/\ last.msg = "ActorTerminated"
        /\ last'.msg = "UpdateReceiptFees"
        /\ last'.kind = "RavRequestResponse"
        /\ last'.alloc = last.alloc)
          => /\ rav_tracker'.fee[last.alloc] = rav_tracker.fee[last.alloc]
             /\ sender_fee_tracker'.fee[last.alloc]
                    = sender_fee_tracker.fee[last.alloc]
             /\ denied' = denied]_vars

\* What the two orders are compared on.
Observed(s) ==
    <<s.allocation_ids, s.sender_fee_tracker, s.rav_tracker,
      s.invalid_receipts_tracker, s.sender_balance, s.denied>>

\* UpdateAllocationIds(S) then UpdateBalanceAndLastRavs(b, m), and the
\* opposite order, from the current state, with the same start-up outcomes.
AllocationsThenEscrow(S, spawned, b, m) ==
    handle_UpdateBalanceAndLastRavs(
        handle_UpdateAllocationIds(CurrentState, S, spawned), b, m)
EscrowThenAllocations(S, spawned, b, m) ==
    handle_UpdateAllocationIds(
        handle_UpdateBalanceAndLastRavs(CurrentState, b, m), S, spawned)

\* The children start up, all of them or none of them.
StartUps == {{}, Alloc}

\* C36 (as stated): from every reachable state, UpdateAllocationIds(S) and
\* UpdateBalanceAndLastRavs(b, m) end in the same allocation_ids, trackers,
\* sender_balance and denied in either order.
C36_AsStated ==
    \A S \in SUBSET env.allocs : \A spawned \in StartUps :
        \A b \in env.balances : \A m \in RavMaps :
            Observed(AllocationsThenEscrow(S, spawned, b, m))
                = Observed(EscrowThenAllocations(S, spawned, b, m))

\* No allocation tracked in rav_tracker and not named by m is added to or
\* removed from allocation_ids by S.
NoTrackedRavMoves(S, m) ==
    \A a \in get_list_of_allocation_ids(rav_tracker) \ DOMAIN m :
        a \in S <=> a \in allocation_ids

\* C36: the two orders end in the same allocation_ids, trackers,
\* sender_balance and denied whenever S neither adds nor removes an
\* allocation that has a pending RAV tracked and that m does not name.
C36_StreamsCommute ==
    \A S \in SUBSET env.allocs : \A spawned \in StartUps :
        \A b \in env.balances : \A m \in RavMaps :
            NoTrackedRavMoves(S, m)
                => Observed(AllocationsThenEscrow(S, spawned, b, m))
                       = Observed(EscrowThenAllocations(S, spawned, b, m))

\* Both streams have spoken: the sender has an allocation of its own with a
\* RAV pending, another allocation not its own, and has been denied by the
\* escrow stream.
C36_Witness ==
    /\ last.msg = "UpdateBalanceAndLastRavs"
    /\ \E a \in allocation_ids : rav_tracker.fee[a] > 0
    /\ allocation_ids # Alloc
    /\ denied /\ ~last.pre_denied

\* C37: NewAllocationId(id) handled while id is in allocation_ids with a
\* live child changes nothing: the child and its mailbox, allocation_ids,
\* the three trackers, denied and the deny list are as they were.
C37_NewAllocationIdIdempotent ==
    [][(/\ last'.msg = "NewAllocationId"
        /\ last'.alloc \in allocation_ids
        /\ children[last'.alloc] = "alive")
          => UNCHANGED <<allocation_ids, children, child_triggers,
                         sender_fee_tracker, rav_tracker,
                         invalid_receipts_tracker, denied, denylist,
                         sender_balance, scheduled_rav_request>>]_vars

\* NewAllocationId has been handled for an allocation of the sender whose
\* live child has a TriggerRAVRequest waiting in its mailbox.
C37_Witness ==
    /\ last.msg = "NewAllocationId"
    /\ last.alloc \in allocation_ids
    /\ children[last.alloc] = "alive"
    /\ child_triggers[last.alloc] > 0
    /\ last.alloc \in sender_fee_tracker.requesting

\* C38 (as stated): whatever the tracker totals and the balance, the deny
\* condition the code computes is the one computed on unbounded integers,
\* and computing it does not panic.
C38_AsStated ==
    /\ deny_condition_reached(CurrentState) <=> OverLimits
    /\ ~deny_condition_panics(CurrentState)

\* C39 (as stated): an allocation marked as having a RAV request in flight
\* eventually has the mark cleared: either it is found unmarked, or the
\* response that clears the mark has just been handled (the same handler
\* may mark it again for the next request).
C39_AsStated ==
    \A a \in Alloc :
        (a \in sender_fee_tracker.requesting)
            ~> \/ a \notin sender_fee_tracker.requesting
               \/ /\ last.msg = "UpdateReceiptFees"
                  /\ last.kind = "RavRequestResponse"
                  /\ last.alloc = a

\* C40 (as stated): whenever a retry is scheduled the sender is denied.
C40_AsStated == scheduled_rav_request # NONE => denied

\* C40: after every UpdateReceiptFees a scheduled retry implies denied; the
\* sender is found allowed with a retry scheduled only when an
\* UpdateBalanceAndLastRavs has just left the timer as it was, or when the
\* sender was already allowed with that same timer before the message.
C40_RetryOutlivesDenyOnlyByBalance ==
    /\ [](last.msg = "UpdateReceiptFees" /\ scheduled_rav_request # NONE
             => denied)
    /\ [][(scheduled_rav_request' # NONE /\ ~denied')
             => /\ scheduled_rav_request' = scheduled_rav_request
                /\ retry_timers' = retry_timers
                /\ \/ last'.msg = "UpdateBalanceAndLastRavs"
                   \/ ~denied]_vars

\* An UpdateBalanceAndLastRavs has re-allowed a denied sender whose retry
\* was scheduled, and the retry is still scheduled.
C40_Witness ==
    /\ last.msg = "UpdateBalanceAndLastRavs"
    /\ last.pre_denied /\ ~denied
    /\ last.pre_timer # NONE
    /\ scheduled_rav_request = last.pre_timer
====
